---- MODULE Spec2Model ----
(***************************************************************************)
(* Model of the WeMo integration of home-assistant-core:                   *)
(*   homeassistant/components/wemo/__init__.py     (setup, resolver,       *)
(*                                                  migration)             *)
(*   homeassistant/components/wemo/config_flow.py  (WemoFlowHandler)       *)
(*   homeassistant/components/wemo/binary_sensor.py, fan.py (platforms)    *)
(* The host framework (config entries, flow manager, device registry) and  *)
(* the pywemo library are collaborators; their operators are marked so in  *)
(* the comments.                                                           *)
(***************************************************************************)
EXTENDS Integers, Sequences, FiniteSets, TLC

VARIABLES
    net,        \* host -> model name of the device listening there
    entries,    \* entry_id -> config record (hass.config_entries)
    cache,      \* hass.data[DOMAIN]["pywemo_wemodevice_cache"]: key -> handle
    flows,      \* flow slot -> config flow (flow manager _progress and results)
    disc,       \* hass.data[DOMAIN]["discovery_info"]: the unique_ids saved
    devreg,     \* device registry: set of [ident, owners]
    calls,      \* entry_id -> resolution awaited by async_setup_entry / a platform
    fwd,        \* entry_id -> the forward_entry_setup of the entry's last setup
    entities,   \* entities added by the platforms: set of [entry, domain, serial]
    reloads,    \* async_reload tasks created and not yet run
    removals,   \* async_remove tasks created and not yet run
    mig,        \* entry_id -> what async_migrate_entry last returned for it
    res,        \* resolver specification: call slot -> async_get_wemo_device call
    probes,     \* resolver specification: number of network resolutions started
    cl,         \* classification specification: [model, stored, domain, pc]
    conf,       \* static specification: [static, pc, parsed] of the yaml config
    hum,        \* humidifier specification: the WemoHumidifier entity, or NONE
    sensor,     \* humidifier specification: the WemoBinarySensor, or NONE
    registry    \* static specification: the SubscriptionRegistry, or NONE

vars == <<net, entries, cache, flows, disc, devreg, calls, fwd,
          entities, reloads, removals, mig, res, probes, cl, conf, hum,
          sensor, registry>>

(***************************************************************************)
(* Values                                                                  *)
(***************************************************************************)
NONE == "none"

\* Python's None where a port is expected (urlparse(...).port of a URL
\* without an explicit port); 0 is "no port supplied".
PortNone == 0 - 1

BINARY_SENSOR_DOMAIN == "binary_sensor"
FAN_DOMAIN == "fan"
LIGHT_DOMAIN == "light"
SWITCH_DOMAIN == "switch"

Domains == {BINARY_SENSOR_DOMAIN, FAN_DOMAIN, LIGHT_DOMAIN, SWITCH_DOMAIN}

CONFIG_ENTRY_VERSION == 2

ERROR_CANNOT_CONNECT == "cannot_connect"
ERROR_CANNOT_DETERMINE_PORT == "cannot_determine_port"
REASON_NO_DEVICES_FOUND == "no_devices_found"
STEP_ID_CONFIRM == "confirm"
STEP_ID_USER == "user"

(***************************************************************************)
(* Model name -> platform (category)                                       *)
(***************************************************************************)
WEMO_MODEL_DISPATCH ==
    ("Bridge" :> LIGHT_DOMAIN) @@
    ("CoffeeMaker" :> SWITCH_DOMAIN) @@
    ("Dimmer" :> LIGHT_DOMAIN) @@
    ("Humidifier" :> FAN_DOMAIN) @@
    ("Insight" :> SWITCH_DOMAIN) @@
    ("LightSwitch" :> SWITCH_DOMAIN) @@
    ("Maker" :> SWITCH_DOMAIN) @@
    ("Motion" :> BINARY_SENSOR_DOMAIN) @@
    ("Sensor" :> BINARY_SENSOR_DOMAIN) @@
    ("Socket" :> SWITCH_DOMAIN)

\* dict.get(key, default)
DictGet(d, key, default) ==
    IF key \in DOMAIN d THEN d[key] ELSE default

\* A dispatch that forgets the default: a missing key gives None.
ClassifyNoDefault(model_name) ==
    DictGet(WEMO_MODEL_DISPATCH, model_name, NONE)

\* WEMO_MODEL_DISPATCH.get(device.model_name, SWITCH_DOMAIN)
Classify(model_name) ==
    DictGet(WEMO_MODEL_DISPATCH, model_name, SWITCH_DOMAIN)

(***************************************************************************)
(* The network: one device per host of Hosts, all listening on MOCK_PORT;  *)
(* OldHost is an address no device answers at any more.                    *)
(***************************************************************************)
MOCK_PORT == 50000

Hosts == {"h1", "h2"}
OldHost == "old"

Serials == {"S1", "S2"}

SerialAt(host) == IF host = "h1" THEN "S1" ELSE "S2"

NameOf(serial) == "Wemo " \o serial

\* The model names the devices of the network are drawn from, per host.
NetModels(host) ==
    IF host = "h1" THEN {"Motion", "Humidifier"} ELSE {"Insight"}

NoDevice == [id |-> 0, serial |-> NONE, model |-> NONE, name |-> NONE]

Device(id, host) ==
    [id |-> id, serial |-> SerialAt(host), model |-> net[host],
     name |-> NameOf(SerialAt(host))]

NoUrl == [host |-> NONE, port |-> 0]

\* "if port" / "if not port" of Python: 0 and None are falsy.
Falsy(port) == port = 0 \/ port = PortNone

\* pywemo.setup_url_for_address (library): a falsy port is probed for;
\* probed = 0 stands for a probe that finds no port.
setup_url_for_address(host, port, probed) ==
    IF Falsy(port)
    THEN IF probed = 0 THEN NoUrl ELSE [host |-> host, port |-> probed]
    ELSE [host |-> host, port |-> port]

\* pywemo.discovery.device_from_description (library): fault is "ok" or the
\* transport error raised ("ConnectionError", "Timeout").
device_from_description(url, fault, id) ==
    IF fault = "ok" /\ url.host \in Hosts /\ url.port = MOCK_PORT
    THEN [kind |-> "device", device |-> Device(id, url.host), cause |-> NONE]
    ELSE [kind |-> "raise", device |-> NoDevice,
          cause |-> IF fault = "ok" THEN "ConnectionError" ELSE fault]

\* What the network can answer for one resolution of host.
Probed(host) == IF host \in Hosts THEN {0, MOCK_PORT} ELSE {0}
Faults(host) ==
    IF host \in Hosts THEN {"ok", "ConnectionError", "Timeout"}
    ELSE {"ConnectionError", "Timeout"}

(***************************************************************************)
(* The resolver: _get_wemo_device and async_get_wemo_device                *)
(***************************************************************************)
\* _get_wemo_device without the "url is None" check: the fetch is attempted.
GetWemoDeviceNoUrlCheck(host, port, probed, fault, id) ==
    LET url == setup_url_for_address(host, port, probed)
        got == device_from_description(url, fault, id)
    IN  IF got.kind = "device"
        THEN [kind |-> "device", device |-> got.device, cause |-> NONE,
              url |-> url, fetched |-> TRUE]
        ELSE [kind |-> "ConnectError", device |-> NoDevice,
              cause |-> got.cause, url |-> url, fetched |-> TRUE]

\* _get_wemo_device raising ConnectError without "from err".
GetWemoDeviceNoCause(host, port, probed, fault, id) ==
    LET r == GetWemoDeviceNoUrlCheck(host, port, probed, fault, id)
    IN  IF setup_url_for_address(host, port, probed) = NoUrl
        THEN [kind |-> "CannotDeterminePortError", device |-> NoDevice,
              cause |-> NONE, url |-> NoUrl, fetched |-> FALSE]
        ELSE [r EXCEPT !.cause = NONE]

\* _get_wemo_device that has the port probed for whatever port it is given.
GetWemoDeviceAlwaysProbes(host, port, probed, fault, id) ==
    IF probed = 0
    THEN [kind |-> "CannotDeterminePortError", device |-> NoDevice,
          cause |-> NONE, url |-> NoUrl, fetched |-> FALSE]
    ELSE GetWemoDeviceNoUrlCheck(host, probed, probed, fault, id)

\* _get_wemo_device(host, port): the result, or the error raised.
\*   kind: "device" | "CannotDeterminePortError" | "ConnectError"
\*   cause: __cause__ of the error; fetched: a description fetch was made.
GetWemoDevice(host, port, probed, fault, id) ==
    LET url == setup_url_for_address(host, port, probed)
        got == device_from_description(url, fault, id)
    IN  IF url = NoUrl
        THEN [kind |-> "CannotDeterminePortError", device |-> NoDevice,
              cause |-> NONE, url |-> NoUrl, fetched |-> FALSE]
        ELSE IF got.kind = "device"
        THEN [kind |-> "device", device |-> got.device, cause |-> NONE,
              url |-> url, fetched |-> TRUE]
        ELSE [kind |-> "ConnectError", device |-> NoDevice,
              cause |-> got.cause, url |-> url, fetched |-> TRUE]

\* Every outcome one executor job for (host, port) can have.
Outcomes(host, port, id) ==
    { GetWemoDevice(host, port, p, f, id) :
        p \in Probed(host), f \in Faults(host) }

PortStr(port) == IF port = PortNone THEN "None" ELSE ToString(port)

\* cache_key = f"{host}:{port}"
CacheKey(host, port) == host \o ":" \o PortStr(port)

\* cache.get(cache_key, None)
CacheGet(c, key) == IF key \in DOMAIN c THEN c[key] ELSE NoDevice

\* the cache after cache.pop(cache_key, None)
CachePopped(c, key) == [k \in DOMAIN c \ {key} |-> c[k]]

\* the cache after cache[cache_key] = device
CachePut(c, key, device) ==
    [k \in DOMAIN c \cup {key} |-> IF k = key THEN device ELSE c[k]]

\* the cache after the lookup of async_get_wemo_device
CacheAfterLookup(c, key, remove_cache) ==
    IF remove_cache THEN CachePopped(c, key) ELSE c

EmptyCache == [k \in {} |-> NoDevice]

(***************************************************************************)
(* Config records and flows                                                *)
(***************************************************************************)
MaxEntries == 3
MaxFlows == 3
\* The flows started while entries are also set up and unloaded (Spec).
MaxSetupFlows == 2

EntryIds == 1..MaxEntries
FlowIds == 1..MaxFlows
SetupFlowIds == 1..MaxSetupFlows

\* A key a dict does not hold (user_input without CONF_PORT).
PortAbsent == 0 - 2

NoInput == [host |-> NONE, port |-> PortAbsent]

\* data = {CONF_PORT: 0, **user_input}
DataOf(user_input) ==
    [host |-> user_input.host,
     port |-> IF user_input.port = PortAbsent THEN 0 ELSE user_input.port]

FreeFlow ==
    [pc |-> "free", source |-> NONE, uid |-> NONE, ctx |-> NoInput,
     cur_step |-> NONE, progress |-> FALSE, input |-> NoInput,
     errors |-> NONE, port_required |-> FALSE,
     result |-> NONE, reason |-> NONE, entry |-> 0]

\* No resolution is awaited for the entry; last is how the latest one ended.
NoCall ==
    [kind |-> NONE, host |-> NONE, port |-> 0, domain |-> NONE, last |-> NONE]

\* The entry is forwarded to no platform.
\*   status: "scheduled" (the forward task is created), "awaiting" (the
\*   platform awaits its device), "set_up", "not_ready" (the platform's
\*   resolution failed), "key_error"; wrote: the setup updated the record.
NoForward == [domain |-> NONE, status |-> NONE, wrote |-> FALSE]

\* The state the handlers read and write, as one value.
World ==
    [entries |-> entries, cache |-> cache, flows |-> flows, disc |-> disc,
     calls |-> calls, fwd |-> fwd,
     entities |-> entities, reloads |-> reloads]

Commit(w) ==
    /\ entries' = w.entries
    /\ cache' = w.cache
    /\ flows' = w.flows
    /\ disc' = w.disc
    /\ calls' = w.calls
    /\ fwd' = w.fwd
    /\ entities' = w.entities
    /\ reloads' = w.reloads

EntriesWithUid(es, unique_id) ==
    {e \in DOMAIN es : es[e].unique_id = unique_id}

\* An entry id no record uses (the framework draws a fresh uuid).
FreshEntryId(es) == CHOOSE i \in EntryIds : i \notin DOMAIN es

(***************************************************************************)
(* Host framework: config entries                                          *)
(***************************************************************************)
\* forward_entry_unload of the entry's platform and the unload of the entry:
\* its entities go, pending work for it is dropped.
UnloadedWorld(w, e, domain) ==
    [w EXCEPT
        !.entries[e].state = "not_loaded",
        !.calls[e] = NoCall,
        !.entities = {x \in @ : ~(x.entry = e /\ x.domain = domain)},
        !.fwd[e] = NoForward]

\* async_unload_entry that unloads the default category.
AsyncUnloadEntryDefaultDomain(w, e) ==
    UnloadedWorld(w, e, SWITCH_DOMAIN)

\* async_unload_entry: domain = entry.data[CONF_DOMAIN]
async_unload_entry(w, e) ==
    UnloadedWorld(w, e, w.entries[e].domain)

\* hass.config_entries.async_unload(entry_id)
ConfigEntriesUnload(w, e) ==
    IF w.entries[e].state = "loaded" THEN async_unload_entry(w, e) ELSE w

\* hass.config_entries.async_remove(entry_id)
ConfigEntriesRemove(w, e) ==
    LET u == ConfigEntriesUnload(w, e)
    IN  [u EXCEPT
            !.entries = [x \in DOMAIN u.entries \ {e} |-> u.entries[x]],
            !.calls[e] = NoCall,
            !.fwd[e] = NoForward,
            !.entities = {x \in @ : x.entry # e},
            !.reloads = @ \ {e}]

\* hass.config_entries.async_update_entry(entry, data={**entry.data, **updates})
\* as _abort_if_unique_id_configured calls it: the entry's host and, when the
\* updates hold one, port; a reload is scheduled when something changed and
\* the entry is loaded or waiting for a retry.
UpdateEntryAddress(w, e, updates) ==
    LET old == w.entries[e]
        new == [old EXCEPT
                   !.host = updates.host,
                   !.port = IF updates.port = PortAbsent THEN @
                            ELSE updates.port]
        changed == new # old
    IN  [w EXCEPT
            !.entries[e] = new,
            !.reloads = IF changed /\ old.state \in {"loaded", "setup_retry"}
                        THEN @ \cup {e} ELSE @]

(***************************************************************************)
(* Host framework: flow manager                                            *)
(***************************************************************************)
\* FlowManager.async_progress lists the flows that have shown a form.
Visible(w, g) == w.flows[g].progress /\ w.flows[g].cur_step # NONE

\* The flow ends (abort or create_entry): it leaves _progress. The ended
\* flow keeps, as bookkeeping, the user_input of its last step.
EndFlow(w, f, result, reason, eid) ==
    [w EXCEPT !.flows[f] =
        [FreeFlow EXCEPT
            !.pc = "done", !.source = w.flows[f].source,
            !.uid = w.flows[f].uid, !.input = w.flows[f].input,
            !.result = result, !.reason = reason, !.entry = eid]]

\* async_show_form: the flow waits at a form.
async_show_form(w, f, step_id, errors, port_required) ==
    [w EXCEPT !.flows[f] =
        [@ EXCEPT
            !.pc = "form", !.cur_step = step_id, !.errors = errors,
            !.port_required = port_required, !.input = NoInput,
            !.result = "form"]]

\* ConfigFlow.async_set_unique_id(unique_id), raise_on_progress=True
\* returns [aborted, w]
async_set_unique_id(w, f, unique_id) ==
    IF \E g \in FlowIds \ {f} : Visible(w, g) /\ w.flows[g].uid = unique_id
    THEN [aborted |-> TRUE,
          w |-> EndFlow(w, f, "abort", "already_in_progress", 0)]
    ELSE [aborted |-> FALSE, w |-> [w EXCEPT !.flows[f].uid = unique_id]]

\* ConfigFlow._abort_if_unique_id_configured(updates)
\* returns [aborted, w]
abort_if_unique_id_configured(w, f, updates) ==
    LET hit == EntriesWithUid(w.entries, w.flows[f].uid)
    IN  IF w.flows[f].uid = NONE \/ hit = {}
        THEN [aborted |-> FALSE, w |-> w]
        ELSE LET e == CHOOSE x \in hit : \A y \in hit : x <= y
             IN  [aborted |-> TRUE,
                  w |-> EndFlow(UpdateEntryAddress(w, e, updates), f,
                                "abort", "already_configured", 0)]

\* async_create_entry(title=device.name, data=data) and
\* ConfigEntriesFlowManager.async_finish_flow for the create_entry result:
\* the other listed flows of the same unique_id leave _progress, a record of
\* the same unique_id is unloaded and removed, the new record is added.
\* The record's field resolved is bookkeeping: the serial number of the
\* device the flow resolved.
async_finish_flow(w, f, device, data) ==
    LET uid == w.flows[f].uid
        eid == FreshEntryId(w.entries)
        others == IF uid = NONE THEN {}
                  ELSE {g \in FlowIds \ {f} :
                           Visible(w, g) /\ w.flows[g].uid = uid}
        w1 == [w EXCEPT !.flows =
                 [g \in FlowIds |->
                    IF g \notin others THEN w.flows[g]
                    ELSE IF w.flows[g].pc = "form"
                    THEN [FreeFlow EXCEPT
                             !.pc = "done", !.source = w.flows[g].source,
                             !.uid = w.flows[g].uid, !.result = "abort",
                             !.reason = "removed"]
                    ELSE [w.flows[g] EXCEPT !.progress = FALSE]]]
        existing == IF uid = NONE THEN {} ELSE EntriesWithUid(w1.entries, uid)
        w2 == IF existing = {} THEN w1
              ELSE ConfigEntriesRemove(w1, CHOOSE x \in existing : TRUE)
        entry == [unique_id |-> uid, version |-> CONFIG_ENTRY_VERSION,
                  source |-> w.flows[f].source, title |-> device.name,
                  host |-> data.host, port |-> data.port, domain |-> NONE,
                  state |-> "not_loaded", resolved |-> device.serial]
        w3 == [w2 EXCEPT !.entries =
                 [x \in DOMAIN w2.entries \cup {eid} |->
                    IF x = eid THEN entry ELSE w2.entries[x]]]
    IN  EndFlow(w3, f, "create_entry", NONE, eid)

(***************************************************************************)
(* WemoFlowHandler (config_flow.py)                                        *)
(***************************************************************************)
\* _async_set_unique_id_and_update(user_input, unique_id): [aborted, w]
async_set_unique_id_and_update(w, f, user_input, unique_id) ==
    LET r == async_set_unique_id(w, f, unique_id)
    IN  IF r.aborted THEN r
        ELSE abort_if_unique_id_configured(r.w, f, user_input)

\* async_step_user, the else branch of the try: the device was resolved.
StepUserResolved(w, f, user_input, device) ==
    LET r == IF w.flows[f].uid = NONE
             THEN async_set_unique_id_and_update(w, f, user_input,
                                                 device.serial)
             ELSE [aborted |-> FALSE, w |-> w]
    IN  IF r.aborted THEN r.w
        ELSE async_finish_flow(r.w, f, device, DataOf(user_input))

\* The except branches with the port field left optional in every form.
StepUserFailedPortOptional(w, f, kind) ==
    async_show_form(w, f, STEP_ID_USER,
                    IF kind = "CannotDeterminePortError"
                    THEN ERROR_CANNOT_DETERMINE_PORT
                    ELSE ERROR_CANNOT_CONNECT, FALSE)

\* async_step_user, the except branches and the form that follows them.
StepUserFailed(w, f, kind) ==
    IF kind = "CannotDeterminePortError"
    THEN async_show_form(w, f, STEP_ID_USER, ERROR_CANNOT_DETERMINE_PORT, TRUE)
    ELSE async_show_form(w, f, STEP_ID_USER, ERROR_CANNOT_CONNECT, FALSE)

\* async_step_user(user_input) up to the await of the executor job inside
\* async_get_wemo_device: a cache hit runs the step to its end, a miss
\* leaves the flow waiting for the job.
async_step_user(w, f, user_input) ==
    IF user_input = NoInput
    THEN async_show_form(w, f, STEP_ID_USER, NONE, FALSE)
    ELSE LET data == DataOf(user_input)
             device == CacheGet(w.cache, CacheKey(data.host, data.port))
             w1 == [w EXCEPT !.flows[f].input = user_input]
         IN  IF device # NoDevice
             THEN StepUserResolved(w1, f, user_input, device)
             ELSE [w1 EXCEPT !.flows[f].pc = "resolving"]

\* async_step_user after the executor job: cache[cache_key] = device and the
\* rest of the step, or the error form.
StepUserResumed(w, f, outcome) ==
    LET user_input == w.flows[f].input
        data == DataOf(user_input)
    IN  IF outcome.kind = "device"
        THEN StepUserResolved(
                 [w EXCEPT !.cache =
                     CachePut(@, CacheKey(data.host, data.port),
                              outcome.device)],
                 f, user_input, outcome.device)
        ELSE StepUserFailed(w, f, outcome.kind)

\* async_step_import
async_step_import(w, f, user_input) == async_step_user(w, f, user_input)

\* dev_reg.async_get_device({(DOMAIN, self.unique_id)}, set())
RegistryHasDevice(unique_id) ==
    \E d \in devreg : d.ident = <<"wemo", unique_id>>

\* async_step_confirm(user_input): confirmed is "user_input is not None".
\* async_step_confirm that never asks: the user step follows at once.
AsyncStepConfirmNoForm(w, f, confirmed) ==
    async_step_user(w, f, w.flows[f].ctx)

\* async_step_confirm without the device-registry lookup.
AsyncStepConfirmNoRegistry(w, f, confirmed) ==
    IF confirmed
    THEN async_step_user(w, f, w.flows[f].ctx)
    ELSE async_show_form(w, f, STEP_ID_CONFIRM, NONE, FALSE)

async_step_confirm(w, f, confirmed) ==
    IF confirmed
    THEN async_step_user(w, f, w.flows[f].ctx)
    ELSE IF RegistryHasDevice(w.flows[f].uid)
    THEN async_step_user(w, f, w.flows[f].ctx)
    ELSE async_show_form(w, f, STEP_ID_CONFIRM, NONE, FALSE)

\* async_step_ssdp(discovery_info); info = [serial, host, port], host and
\* port as urlparse gives them for the location URL (port None when the
\* URL names none).
async_step_ssdp(w, f, info) ==
    LET user_input == [host |-> info.host, port |-> info.port]
        w1 == [w EXCEPT
                  !.disc = [u \in DOMAIN w.disc \cup {info.serial} |->
                              IF u = info.serial THEN info ELSE w.disc[u]],
                  !.flows[f].ctx = user_input,
                  !.flows[f].input = user_input]
        r == async_set_unique_id_and_update(w1, f, user_input, info.serial)
    IN  IF r.aborted THEN r.w ELSE async_step_confirm(r.w, f, FALSE)

\* async_step_unignore that finds no saved discovery.
AsyncStepUnignoreForgets(w, f, unique_id) ==
    EndFlow(w, f, "abort", REASON_NO_DEVICES_FOUND, 0)

\* async_step_unignore(user_input)
async_step_unignore(w, f, unique_id) ==
    IF unique_id \in DOMAIN w.disc
    THEN async_step_ssdp(w, f, w.disc[unique_id])
    ELSE EndFlow(w, f, "abort", REASON_NO_DEVICES_FOUND, 0)

(***************************************************************************)
(* Entry setup (__init__.py) and the platforms                             *)
(***************************************************************************)
\* hass.async_create_task(async_forward_entry_setup(entry, domain))
Forwarded(w, e, domain, wrote) ==
    [w EXCEPT
        !.entries[e].state = "loaded",
        !.fwd[e] = [domain |-> domain, status |-> "scheduled",
                    wrote |-> wrote]]

\* async_setup_entry that forwards to the stored category when there is one.
SetupResolvedStoredDomain(w, e, device) ==
    LET domain == IF w.entries[e].domain = NONE
                  THEN Classify(device.model) ELSE w.entries[e].domain
    IN  Forwarded([w EXCEPT !.entries[e].domain = domain], e, domain,
                  w.entries[e].domain = NONE)

\* async_setup_entry after the device was obtained: classify, update the
\* record when its CONF_DOMAIN differs, create the forward task, return True.
SetupResolved(w, e, device) ==
    LET domain == Classify(device.model)
    IN  IF w.entries[e].domain # domain
        THEN Forwarded([w EXCEPT !.entries[e].domain = domain], e, domain,
                       TRUE)
        ELSE Forwarded(w, e, domain, FALSE)

\* class ConnectError(ConfigEntryNotReady),
\* class CannotDeterminePortError(ConnectError)
IsConnectError(kind) == kind \in {"ConnectError", "CannotDeterminePortError"}
IsConfigEntryNotReady(kind) == IsConnectError(kind)

\* A setup that forwards the entry although the resolution failed.
SetupFailedForwards(w, e, kind) ==
    Forwarded([w EXCEPT !.entries[e].domain = SWITCH_DOMAIN], e,
              SWITCH_DOMAIN, TRUE)

\* async_setup_entry when async_get_wemo_device raises: the error leaves
\* async_setup_entry, and for a ConfigEntryNotReady the framework marks the
\* entry for a later retry.
SetupFailed(w, e, kind) ==
    [w EXCEPT !.entries[e].state =
        IF IsConfigEntryNotReady(kind) THEN "setup_retry" ELSE "setup_error"]

\* async_setup_entry(hass, entry) up to the await of the executor job.
async_setup_entry(w, e) ==
    LET host == w.entries[e].host
        port == w.entries[e].port
        device == CacheGet(w.cache, CacheKey(host, port))
    IN  IF device # NoDevice
        THEN SetupResolved([w EXCEPT !.calls[e] = NoCall], e, device)
        ELSE [w EXCEPT !.calls[e] =
                 [kind |-> "setup", host |-> host, port |-> port,
                  domain |-> NONE, last |-> NONE]]

\* async_setup_entry after the executor job.
SetupResumed(w, e, outcome) ==
    LET c == w.calls[e]
        w1 == [w EXCEPT !.calls[e] = [NoCall EXCEPT !.last = outcome.kind]]
    IN  IF outcome.kind = "device"
        THEN SetupResolved(
                 [w1 EXCEPT !.cache =
                     CachePut(@, CacheKey(c.host, c.port), outcome.device)],
                 e, outcome.device)
        ELSE SetupFailed(w1, e, outcome.kind)

\* async_add_entities([Entity(device)])
AddEntity(w, e, domain, device) ==
    [w EXCEPT
        !.entities =
            @ \cup {[entry |-> e, domain |-> domain, serial |-> device.serial]},
        !.fwd[e].status = "set_up"]

\* binary_sensor.async_setup_entry up to the await of the executor job:
\* async_get_wemo_device(hass, config_entry.data, remove_cache=True).
\* The switch and light platforms are not part of the sources; they are
\* taken to follow the same pattern.
TakingPlatformSetup(w, e, domain) ==
    LET host == w.entries[e].host
        port == w.entries[e].port
        key == CacheKey(host, port)
        device == CacheGet(w.cache, key)
    IN  IF device # NoDevice
        THEN AddEntity([w EXCEPT !.cache = CachePopped(@, key)],
                       e, domain, device)
        ELSE [w EXCEPT
                 !.calls[e] =
                     [kind |-> "platform", host |-> host, port |-> port,
                      domain |-> domain, last |-> NONE],
                 !.fwd[e].status = "awaiting"]

\* fan.async_setup_entry: hass.data[WEMO_DOMAIN]["pending"].pop("fan");
\* nothing in the component sets hass.data[DOMAIN]["pending"], so the
\* lookup raises KeyError before any entity is added.
FanPlatformSetup(w, e) ==
    [w EXCEPT !.fwd[e].status = "key_error"]

\* The platform setup after the executor job.
PlatformResumed(w, e, outcome) ==
    LET c == w.calls[e]
        w1 == [w EXCEPT !.calls[e] = [NoCall EXCEPT !.last = outcome.kind]]
    IN  IF outcome.kind = "device"
        THEN AddEntity(
                 [w1 EXCEPT !.cache =
                     CachePut(@, CacheKey(c.host, c.port), outcome.device)],
                 e, c.domain, outcome.device)
        ELSE [w1 EXCEPT !.fwd[e].status = "not_ready"]

\* hass.config_entries.async_forward_entry_setup(entry, domain)
ForwardEntrySetup(w, e) ==
    IF w.fwd[e].domain = FAN_DOMAIN
    THEN FanPlatformSetup(w, e)
    ELSE TakingPlatformSetup(w, e, w.fwd[e].domain)

(***************************************************************************)
(* async_get_wemo_device as a call of its own (specification SpecResolver) *)
(***************************************************************************)
MaxCalls == 3

CallIds == 1..MaxCalls

FreeCall ==
    [pc |-> "free", host |-> NONE, port |-> 0, remove_cache |-> FALSE,
     job |-> 0, kind |-> NONE, device |-> NoDevice, cause |-> NONE,
     url |-> NoUrl, fetched |-> FALSE, probed |-> 0, fault |-> NONE]

IdleRes == [c \in CallIds |-> FreeCall]

\* async_get_wemo_device(hass, config_data, remove_cache) up to its return
\* on a cache hit, or up to the await of the executor job on a miss.
\* c is the call, job the number the executor job would get.
GetDeviceCalled(call, c, host, port, remove_cache, job) ==
    LET device == CacheGet(c, CacheKey(host, port))
    IN  IF device # NoDevice
        THEN [call EXCEPT !.pc = "returned", !.host = host, !.port = port,
                          !.remove_cache = remove_cache, !.kind = "device",
                          !.device = device]
        ELSE [call EXCEPT !.pc = "awaiting", !.host = host, !.port = port,
                          !.remove_cache = remove_cache, !.job = job]

\* async_get_wemo_device after the executor job ran _get_wemo_device;
\* probed and fault are what the network answered the job.
GetDeviceResumed(call, outcome, probed, fault) ==
    [call EXCEPT
        !.pc = IF outcome.kind = "device" THEN "returned" ELSE "raised",
        !.kind = outcome.kind, !.device = outcome.device,
        !.cause = outcome.cause, !.url = outcome.url,
        !.fetched = outcome.fetched, !.probed = probed, !.fault = fault]

\* A resumption that returns the device without cache[cache_key] = device.
CacheAfterJobNoInsert(c, host, port, outcome) == c

\* The cache after the executor job: cache[cache_key] = device on success.
CacheAfterJob(c, host, port, outcome) ==
    IF outcome.kind = "device"
    THEN CachePut(c, CacheKey(host, port), outcome.device)
    ELSE c

(***************************************************************************)
(* Static configuration (__init__.py): coerce_host_port and CONFIG_SCHEMA. *)
(* A configured string is a sequence of one-character strings.             *)
(***************************************************************************)
Digits == <<"0", "1", "2", "3", "4", "5", "6", "7", "8", "9">>
DigitValue(ch) == (CHOOSE d \in DOMAIN Digits : Digits[d] = ch) - 1

\* int(text) for a text of decimal digits
RECURSIVE IntOf(_)
IntOf(text) ==
    IF text = <<>> THEN 0
    ELSE IntOf(SubSeq(text, 1, Len(text) - 1)) * 10
         + DigitValue(text[Len(text)])

\* the characters as one string
RECURSIVE StrOf(_)
StrOf(text) == IF text = <<>> THEN "" ELSE text[1] \o StrOf(Tail(text))

\* value.partition(":"): what is before and what is after the first colon
Partition(value) ==
    LET colon == IF \E k \in 1..Len(value) : value[k] = ":"
                 THEN CHOOSE k \in 1..Len(value) :
                         value[k] = ":" /\ \A j \in 1..(k - 1) : value[j] # ":"
                 ELSE Len(value) + 1
    IN  [host |-> SubSeq(value, 1, colon - 1),
         port |-> SubSeq(value, colon + 1, Len(value))]

\* vol.Invalid
Invalid == [ok |-> FALSE, host |-> NONE, port |-> 0]

\* cv.port = vol.All(vol.Coerce(int), vol.Range(min=1, max=65535))
cv_port(text) ==
    IF text # <<>> /\ \A k \in 1..Len(text) :
                        \E d \in DOMAIN Digits : Digits[d] = text[k]
    THEN IF IntOf(text) \in 1..65535
         THEN [ok |-> TRUE, host |-> NONE, port |-> IntOf(text)]
         ELSE Invalid
    ELSE Invalid

\* coerce_host_port without "if not host: raise vol.Invalid".
CoerceHostPortNoHostCheck(value) ==
    LET host == Partition(value).host
        port == Partition(value).port
    IN  IF port # <<>>
        THEN IF cv_port(port).ok
             THEN [ok |-> TRUE, host |-> StrOf(host),
                   port |-> cv_port(port).port]
             ELSE Invalid
        ELSE [ok |-> TRUE, host |-> StrOf(host), port |-> 0]

\* coerce_host_port(value)
coerce_host_port(value) ==
    LET host == Partition(value).host
        port == Partition(value).port
    IN  IF host = <<>> THEN Invalid
        ELSE IF port # <<>>
        THEN IF cv_port(port).ok
             THEN [ok |-> TRUE, host |-> StrOf(host),
                   port |-> cv_port(port).port]
             ELSE Invalid
        ELSE [ok |-> TRUE, host |-> StrOf(host), port |-> 0]

\* CONFIG_SCHEMA on the list under "static": every item through
\* coerce_host_port; one vol.Invalid makes the whole validation fail.
CONFIG_SCHEMA(static) ==
    LET items == [i \in 1..Len(static) |-> coerce_host_port(static[i])]
    IN  IF \A i \in 1..Len(static) : items[i].ok
        THEN [ok |-> TRUE,
              static |-> [i \in 1..Len(static) |->
                            [host |-> items[i].host, port |-> items[i].port]]]
        ELSE [ok |-> FALSE, static |-> <<>>]

(***************************************************************************)
(* Specification Spec: flows, records, setup and platforms                 *)
(***************************************************************************)
NoFlows == [f \in FlowIds |-> FreeFlow]
NoCalls == [e \in EntryIds |-> NoCall]
NoForwards == [e \in EntryIds |-> NoForward]
NoEntries == [e \in {} |-> 0]
NoDiscovery == [u \in {} |-> 0]
NoMigrations == [e \in {} |-> NONE]

IdleCl == [model |-> NONE, stored |-> NONE, domain |-> NONE, pc |-> "idle"]
IdleConf == [static |-> <<>>, pc |-> "idle", parsed |-> <<>>]

\* A record stored by an earlier run of the program.
StoredEntry(unique_id, host, port, domain) ==
    [unique_id |-> unique_id, version |-> CONFIG_ENTRY_VERSION,
     source |-> "import", title |-> NameOf(unique_id),
     host |-> host, port |-> port, domain |-> domain, state |-> "not_loaded",
     resolved |-> unique_id]

\* The records the program may start with: none, or one record of the
\* device S1 with its address current or stale and its category missing,
\* current or stale.
StoredEntrySets(n) ==
    {NoEntries} \cup
    { (1 :> StoredEntry("S1", h, p, d)) :
        h \in {"h1", OldHost}, p \in {MOCK_PORT},
        d \in {NONE, SWITCH_DOMAIN, Classify(n["h1"])} }

\* The device registry as a version-1 entry (id 0) left it.
StoredRegistries ==
    { {}, {[ident |-> <<"wemo", "S1">>, owners |-> {0}]} }

InitOther ==
    /\ res = IdleRes
    /\ conf = IdleConf
    /\ hum = NONE
    /\ sensor = NONE
    /\ registry = NONE
    /\ probes = 0
    /\ cl = IdleCl
    /\ removals = {}
    /\ mig = NoMigrations

Init ==
    /\ net \in {n \in [Hosts -> {"Motion", "Humidifier", "Insight", "Widget"}] :
                  \A h \in Hosts : n[h] \in NetModels(h)}
    /\ entries \in StoredEntrySets(net)
    /\ cache = EmptyCache
    /\ flows = NoFlows
    /\ disc = NoDiscovery
    /\ devreg \in StoredRegistries
    /\ calls = NoCalls
    /\ fwd = NoForwards
    /\ entities = {}
    /\ reloads = {}
    /\ InitOther

FlowFrame ==
    UNCHANGED <<net, devreg, removals, mig, res, probes, cl, conf, hum,
    sensor, registry>>

\* The slot a new flow takes: the first one that holds no running flow.
FreeSlot(f) ==
    /\ flows[f].pc = "free"
    /\ \A g \in FlowIds : g < f => flows[g].pc # "free"

\* flow.async_init: the flow enters _progress with its source.
Initiated(w, f, source) ==
    [w EXCEPT !.flows[f] =
        [FreeFlow EXCEPT !.pc = "init", !.source = source, !.progress = TRUE]]

CanCreate == DOMAIN entries # EntryIds

\* async_init(DOMAIN, context={"source": SOURCE_USER}, data=None)
StartUser(f) ==
    /\ FreeSlot(f)
    /\ Commit(async_step_user(Initiated(World, f, "user"), f, NoInput))
    /\ FlowFrame

\* async_configure(flow_id, user_input) at the user form; the form's schema
\* rejects an input without the port when the port is required.
SubmitUser(f, host, port) ==
    /\ flows[f].pc = "form" /\ flows[f].cur_step = STEP_ID_USER
    /\ flows[f].port_required => port # PortAbsent
    /\ CanCreate
    /\ Commit(async_step_user(World, f, [host |-> host, port |-> port]))
    /\ FlowFrame

\* async_setup: one import flow per static entry (host, port).
StartImport(f, host, port) ==
    /\ FreeSlot(f)
    /\ CanCreate
    /\ Commit(async_step_import(Initiated(World, f, "import"), f,
                                [host |-> host, port |-> port]))
    /\ FlowFrame

\* async_init(DOMAIN, context={"source": SOURCE_SSDP}, data=discovery_info)
\* for the device listening at host.
StartSsdp(f, host, port) ==
    /\ FreeSlot(f)
    /\ CanCreate
    /\ Commit(async_step_ssdp(Initiated(World, f, "ssdp"), f,
                  [serial |-> SerialAt(host), host |-> host, port |-> port]))
    /\ FlowFrame

\* async_init(DOMAIN, context={"source": SOURCE_UNIGNORE}, data={unique_id})
StartUnignore(f, unique_id) ==
    /\ FreeSlot(f)
    /\ CanCreate
    /\ Commit(async_step_unignore(Initiated(World, f, "unignore"), f,
                                  unique_id))
    /\ FlowFrame

\* async_configure(flow_id, {}) at the confirm form.
Confirm(f) ==
    /\ flows[f].pc = "form" /\ flows[f].cur_step = STEP_ID_CONFIRM
    /\ CanCreate
    /\ Commit(async_step_confirm(World, f, TRUE))
    /\ FlowFrame

\* The executor job of a flow's async_get_wemo_device ends.
FlowJobDone(f) ==
    /\ flows[f].pc = "resolving"
    /\ CanCreate
    /\ \E outcome \in Outcomes(DataOf(flows[f].input).host,
                               DataOf(flows[f].input).port, 0) :
          Commit(StepUserResumed(World, f, outcome))
    /\ FlowFrame

\* hass.config_entries.async_setup(entry_id): at startup, after a flow
\* created the record, or as the retry after ConfigEntryNotReady.
SetupEntry(e) ==
    /\ e \in DOMAIN entries
    /\ entries[e].state \in {"not_loaded", "setup_retry"}
    /\ entries[e].version = CONFIG_ENTRY_VERSION
    /\ calls[e].kind = NONE
    /\ Commit(async_setup_entry(World, e))
    /\ FlowFrame

\* The executor job of async_setup_entry's async_get_wemo_device ends.
SetupJobDone(e) ==
    /\ calls[e].kind = "setup"
    /\ \E outcome \in Outcomes(calls[e].host, calls[e].port, 0) :
          Commit(SetupResumed(World, e, outcome))
    /\ FlowFrame

\* The forward_entry_setup task runs the platform's async_setup_entry.
PlatformSetup(e) ==
    /\ e \in DOMAIN entries
    /\ fwd[e].status = "scheduled"
    /\ calls[e].kind = NONE
    /\ Commit(ForwardEntrySetup(World, e))
    /\ FlowFrame

\* The executor job of a platform's async_get_wemo_device ends.
PlatformJobDone(e) ==
    /\ calls[e].kind = "platform"
    /\ \E outcome \in Outcomes(calls[e].host, calls[e].port, 0) :
          Commit(PlatformResumed(World, e, outcome))
    /\ FlowFrame

\* hass.config_entries.async_unload(entry_id)
UnloadEntry(e) ==
    /\ e \in DOMAIN entries
    /\ entries[e].state = "loaded"
    /\ calls[e].kind = NONE
    /\ Commit(async_unload_entry(World, e))
    /\ FlowFrame

\* The async_reload task: unload, then set up again.
ReloadEntry(e) ==
    /\ e \in reloads
    /\ e \in DOMAIN entries
    /\ calls[e].kind = NONE
    /\ LET w1 == [World EXCEPT !.reloads = @ \ {e}]
           w2 == [ConfigEntriesUnload(w1, e) EXCEPT
                     !.entries[e].state = "not_loaded"]
       IN  Commit(async_setup_entry(w2, e))
    /\ FlowFrame

\* The inputs: what the user types, the static configuration lists, and
\* the SSDP location URLs name.
StaticHosts == {"h1"}
SsdpHosts == {"h1"}
UserPorts == {PortAbsent, MOCK_PORT}
StaticPorts == {0, MOCK_PORT}
SsdpPorts == {PortNone, MOCK_PORT}

Next ==
    \/ \E f \in SetupFlowIds : StartUser(f)
    \/ \E f \in SetupFlowIds, h \in Hosts, p \in UserPorts :
          SubmitUser(f, h, p)
    \/ \E f \in SetupFlowIds, h \in StaticHosts, p \in StaticPorts :
          StartImport(f, h, p)
    \/ \E f \in SetupFlowIds, h \in SsdpHosts, p \in SsdpPorts :
          StartSsdp(f, h, p)
    \/ \E f \in SetupFlowIds, u \in Serials : StartUnignore(f, u)
    \/ \E f \in SetupFlowIds : Confirm(f)
    \/ \E f \in SetupFlowIds : FlowJobDone(f)
    \/ \E e \in EntryIds : SetupEntry(e)
    \/ \E e \in EntryIds : SetupJobDone(e)
    \/ \E e \in EntryIds : PlatformSetup(e)
    \/ \E e \in EntryIds : PlatformJobDone(e)
    \/ \E e \in EntryIds : UnloadEntry(e)
    \/ \E e \in EntryIds : ReloadEntry(e)

Spec == Init /\ [][Next]_vars

(***************************************************************************)
(* Specification SpecFlows: the config flows alone, MaxFlows of them       *)
(***************************************************************************)
\* The records the flows may find: none, or one record of the device S1
\* with its address current or stale.
InitFlows ==
    /\ net = [h \in Hosts |-> IF h = "h1" THEN "Motion" ELSE "Insight"]
    /\ entries \in {NoEntries} \cup
                   { (1 :> StoredEntry("S1", h, MOCK_PORT, NONE)) :
                       h \in {"h1", OldHost} }
    /\ cache = EmptyCache
    /\ flows = NoFlows
    /\ disc = NoDiscovery
    /\ devreg \in StoredRegistries
    /\ calls = NoCalls
    /\ fwd = NoForwards
    /\ entities = {}
    /\ reloads = {}
    /\ InitOther

NextFlows ==
    \/ \E f \in FlowIds : StartUser(f)
    \/ \E f \in FlowIds, h \in Hosts, p \in UserPorts : SubmitUser(f, h, p)
    \/ \E f \in FlowIds, h \in StaticHosts, p \in StaticPorts :
          StartImport(f, h, p)
    \/ \E f \in FlowIds, h \in SsdpHosts, p \in SsdpPorts : StartSsdp(f, h, p)
    \/ \E f \in FlowIds, u \in Serials : StartUnignore(f, u)
    \/ \E f \in FlowIds : Confirm(f)
    \/ \E f \in FlowIds : FlowJobDone(f)

SpecFlows == InitFlows /\ [][NextFlows]_vars

(***************************************************************************)
(* Specification SpecUnignore: discoveries that the user ignores and       *)
(* un-ignores                                                              *)
(***************************************************************************)
\* async_init(DOMAIN, context={"source": SOURCE_IGNORE}, data={unique_id})
\* for a discovered flow the user is shown: ConfigFlow.async_step_ignore
\* sets the unique_id with raise_on_progress=False and creates a record
\* with empty data.
IgnoreDevice(f, unique_id) ==
    /\ FreeSlot(f)
    /\ CanCreate
    /\ \E g \in FlowIds : Visible(World, g) /\ flows[g].uid = unique_id
    /\ Commit(async_finish_flow(
                 [Initiated(World, f, "ignore") EXCEPT
                     !.flows[f].uid = unique_id],
                 f, NoDevice, NoInput))
    /\ FlowFrame

\* hass.config_entries.async_remove(entry_id) of an ignored record; the
\* unignore flow it schedules is StartUnignore.
RemoveIgnored(e) ==
    /\ e \in DOMAIN entries
    /\ entries[e].source = "ignore"
    /\ Commit(ConfigEntriesRemove(World, e))
    /\ FlowFrame

NextUnignore ==
    \/ \E f \in FlowIds, h \in SsdpHosts, p \in SsdpPorts : StartSsdp(f, h, p)
    \/ \E f \in FlowIds, u \in Serials : IgnoreDevice(f, u)
    \/ \E e \in EntryIds : RemoveIgnored(e)
    \/ \E f \in FlowIds, u \in Serials : StartUnignore(f, u)
    \/ \E f \in FlowIds : Confirm(f)
    \/ \E f \in FlowIds : FlowJobDone(f)

SpecUnignore == InitFlows /\ [][NextUnignore]_vars

(***************************************************************************)
(* Specification SpecResolver: calls of async_get_wemo_device              *)
(***************************************************************************)
ResolverHosts == {"h1"}
ResolverPorts == {0, MOCK_PORT}

InitNoFlows ==
    /\ entries = NoEntries
    /\ flows = NoFlows
    /\ disc = NoDiscovery
    /\ devreg = {}
    /\ calls = NoCalls
    /\ fwd = NoForwards
    /\ entities = {}
    /\ reloads = {}
    /\ removals = {}
    /\ mig = NoMigrations
    /\ conf = IdleConf
    /\ hum = NONE
    /\ sensor = NONE
    /\ registry = NONE

InitResolver ==
    /\ net \in {n \in [Hosts -> {"Motion", "Humidifier", "Insight"}] :
                  \A h \in Hosts : n[h] \in NetModels(h)}
    /\ cache = EmptyCache
    /\ res = IdleRes
    /\ probes = 0
    /\ cl = IdleCl
    /\ InitNoFlows

ResolverFrame ==
    UNCHANGED <<net, entries, flows, disc, devreg, calls, fwd,
                entities, reloads, removals, mig, cl, conf, hum,
                sensor, registry>>

FreeCallSlot(c) ==
    /\ res[c].pc = "free"
    /\ \A d \in CallIds : d < c => res[d].pc # "free"

\* A caller awaits async_get_wemo_device(hass, {host, port}, remove_cache).
GetDeviceCall(c, host, port, remove_cache) ==
    /\ FreeCallSlot(c)
    /\ LET call == GetDeviceCalled(res[c], cache, host, port, remove_cache,
                                   probes + 1)
       IN  /\ res' = [res EXCEPT ![c] = call]
           /\ cache' = CacheAfterLookup(cache, CacheKey(host, port),
                                        remove_cache)
           /\ probes' = IF call.pc = "awaiting" THEN probes + 1 ELSE probes
    /\ ResolverFrame

\* The executor job of call c ends and the call resumes.
GetDeviceJobDone(c, probed, fault) ==
    /\ res[c].pc = "awaiting"
    /\ LET outcome == GetWemoDevice(res[c].host, res[c].port, probed, fault,
                                    res[c].job)
       IN  /\ res' = [res EXCEPT ![c] = GetDeviceResumed(@, outcome, probed,
                                                          fault)]
           /\ cache' = CacheAfterJob(cache, res[c].host, res[c].port, outcome)
    /\ UNCHANGED probes
    /\ ResolverFrame

NextResolver ==
    \/ \E c \in CallIds, h \in ResolverHosts, p \in ResolverPorts,
          rm \in BOOLEAN : GetDeviceCall(c, h, p, rm)
    \/ \E c \in CallIds :
          \E probed \in Probed(res[c].host), fault \in Faults(res[c].host) :
             GetDeviceJobDone(c, probed, fault)

SpecResolver == InitResolver /\ [][NextResolver]_vars

(***************************************************************************)
(* Specification SpecClassify: the classification of async_setup_entry     *)
(***************************************************************************)
\* The model names of WEMO_MODEL_DISPATCH and names it does not hold.
ModelNames ==
    DOMAIN WEMO_MODEL_DISPATCH \cup
    {"", "bridge", "Switch", "Widget", "OutdoorPlug", "HUMIDIFIER"}

InitClassify ==
    /\ cl \in [model : ModelNames, stored : Domains \cup {NONE},
               domain : {NONE}, pc : {"start"}]
    /\ net = [h \in Hosts |-> "Insight"]
    /\ cache = EmptyCache
    /\ res = IdleRes
    /\ probes = 0
    /\ InitNoFlows

\* domain = WEMO_MODEL_DISPATCH.get(device.model_name, SWITCH_DOMAIN) and the
\* update of CONF_DOMAIN when the stored one differs.
ClassifyDevice ==
    /\ cl.pc = "start"
    /\ LET domain == Classify(cl.model)
       IN  cl' = [cl EXCEPT
                     !.domain = domain,
                     !.stored = IF cl.stored # domain THEN domain ELSE @,
                     !.pc = IF cl.stored # domain THEN "updated"
                            ELSE "kept"]
    /\ UNCHANGED <<net, entries, cache, flows, disc, devreg, calls, fwd,
                   entities, reloads, removals, mig, res, probes, conf, hum,
                   sensor, registry>>

NextClassify == ClassifyDevice

SpecClassify == InitClassify /\ [][NextClassify]_vars

(***************************************************************************)
(* Specification SpecMigrate: async_migrate_entry and the removal task     *)
(***************************************************************************)
MaxDevices == 2

DeviceIds == 1..MaxDevices

V1Entry == 1
\* The version-2 record of device d, and a record of another integration
\* that may own a device too.
V2EntryOf(d) == d + 1
OtherEntry == 0
\* A record of this integration written by a later release (version 3).
FutureEntry == MaxDevices + 2

V1Record ==
    [unique_id |-> "wemo", version |-> 1, source |-> "import",
     title |-> "Wemo", host |-> NONE, port |-> 0, domain |-> NONE,
     state |-> "not_loaded", resolved |-> NONE]

V2Record(d) ==
    [unique_id |-> ToString(d), version |-> CONFIG_ENTRY_VERSION,
     source |-> "ssdp", title |-> NameOf(ToString(d)), host |-> "h1",
     port |-> MOCK_PORT, domain |-> SWITCH_DOMAIN, state |-> "not_loaded",
     resolved |-> ToString(d)]

\* dev_reg.async_entries_for_config_entry(devices, entry_id)
async_entries_for_config_entry(devices, entry_id) ==
    {d \in devices : entry_id \in d.owners}

\* The removal test with any() in place of all().
AnyDeviceMigrated(devices, entry_id) ==
    \E d \in async_entries_for_config_entry(devices, entry_id) :
        Cardinality(d.owners) > 1

\* all(len(device.config_entries) > 1 for device in device_entries)
AllDevicesMigrated(devices, entry_id) ==
    \A d \in async_entries_for_config_entry(devices, entry_id) :
        Cardinality(d.owners) > 1

\* The registry after dev_reg.async_clear_config_entry(entry_id): the entry
\* leaves every device, a device no entry owns is dropped.
ClearedRegistry(devices, entry_id) ==
    { [d EXCEPT !.owners = @ \ {entry_id}] :
        d \in {x \in devices : x.owners # {entry_id}} }

\* The registries the program may start with: each device is unknown, or
\* owned by the version-1 entry, its version-2 entry, another integration's
\* entry, or several of them.
InitMigrate ==
    /\ \E own \in [DeviceIds -> SUBSET {V1Entry, 2, OtherEntry}] :
         LET owners(d) == {IF x = 2 THEN V2EntryOf(d) ELSE x : x \in own[d]}
             known == {d \in DeviceIds : own[d] # {}}
             v2 == {d \in DeviceIds : 2 \in own[d]}
         IN  /\ devreg = {[ident |-> <<"serial_number", ToString(d)>>,
                           owners |-> owners(d)] : d \in known}
             /\ entries = [e \in {V1Entry, FutureEntry} \cup
                                   {V2EntryOf(d) : d \in v2} |->
                             IF e = V1Entry THEN V1Record
                             ELSE IF e = FutureEntry
                             THEN [V2Record(e - 1) EXCEPT
                                      !.version = CONFIG_ENTRY_VERSION + 1]
                             ELSE V2Record(e - 1)]
    /\ removals = {}
    /\ mig = NoMigrations
    /\ net = [h \in Hosts |-> "Insight"]
    /\ cache = EmptyCache
    /\ flows = NoFlows
    /\ disc = NoDiscovery
    /\ calls = NoCalls
    /\ fwd = NoForwards
    /\ entities = {}
    /\ reloads = {}
    /\ res = IdleRes
    /\ probes = 0
    /\ cl = IdleCl
    /\ conf = IdleConf
    /\ hum = NONE
    /\ sensor = NONE
    /\ registry = NONE

MigrateFrame ==
    UNCHANGED <<net, cache, flows, disc, calls, fwd, entities,
                reloads, res, probes, cl, conf, hum,
                sensor, registry>>

\* async_migrate_entry that reports success for every record.
MigrateEntryReportsSuccess(e) ==
    /\ e \in DOMAIN entries
    /\ removals' = IF entries[e].version = 1 /\ AllDevicesMigrated(devreg, e)
                   THEN removals \cup {e} ELSE removals
    /\ mig' = [x \in DOMAIN mig \cup {e} |-> IF x = e THEN "True" ELSE mig[x]]
    /\ UNCHANGED <<entries, devreg>>
    /\ MigrateFrame

\* async_migrate_entry(hass, entry)
MigrateEntry(e) ==
    /\ e \in DOMAIN entries
    /\ IF entries[e].version = 1
       THEN /\ removals' = IF AllDevicesMigrated(devreg, e)
                           THEN removals \cup {e} ELSE removals
            /\ mig' = [x \in DOMAIN mig \cup {e} |->
                         IF x = e THEN "False" ELSE mig[x]]
       ELSE /\ removals' = removals
            /\ mig' = [x \in DOMAIN mig \cup {e} |->
                         IF x = e THEN "True" ELSE mig[x]]
    /\ UNCHANGED <<entries, devreg>>
    /\ MigrateFrame

\* The task hass.config_entries.async_remove(entry_id) runs: the record
\* goes and the device registry forgets it.
RemovalTask(e) ==
    /\ e \in removals
    /\ removals' = removals \ {e}
    /\ IF e \in DOMAIN entries
       THEN /\ entries' = [x \in DOMAIN entries \ {e} |-> entries[x]]
            /\ devreg' = ClearedRegistry(devreg, e)
       ELSE UNCHANGED <<entries, devreg>>
    /\ UNCHANGED mig
    /\ MigrateFrame

\* A device of the version-1 entry gets its version-2 record: a flow
\* creates the record and its platform registers the device for it
\* (dev_registry.async_get_or_create(config_entry_id=v2_entry.entry_id, ...)).
DeviceGetsV2Entry(d) ==
    /\ V2EntryOf(d) \notin DOMAIN entries
    /\ \E x \in devreg : x.ident = <<"serial_number", ToString(d)>>
    /\ entries' = [e \in DOMAIN entries \cup {V2EntryOf(d)} |->
                     IF e = V2EntryOf(d) THEN V2Record(d) ELSE entries[e]]
    /\ devreg' = { IF x.ident = <<"serial_number", ToString(d)>>
                   THEN [x EXCEPT !.owners = @ \cup {V2EntryOf(d)}]
                   ELSE x : x \in devreg }
    /\ UNCHANGED <<removals, mig>>
    /\ MigrateFrame

NextMigrate ==
    \/ \E e \in {V1Entry, FutureEntry} \cup {V2EntryOf(d) : d \in DeviceIds} :
          MigrateEntry(e)
    \/ \E e \in {V1Entry} \cup {V2EntryOf(d) : d \in DeviceIds} :
          RemovalTask(e)
    \/ \E d \in DeviceIds : DeviceGetsV2Entry(d)

SpecMigrate == InitMigrate /\ [][NextMigrate]_vars

\* The event loop runs every task it was given.
SpecMigrateFair ==
    /\ SpecMigrate
    /\ \A e \in {V1Entry} \cup {V2EntryOf(d) : d \in DeviceIds} :
          WF_vars(RemovalTask(e))

(***************************************************************************)
(* Specification SpecStatic: component setup from the yaml configuration   *)
(***************************************************************************)
MaxStatic == 2

\* The strings tried under "static": "h1", "h1:50000", "", ":50000", "h1:",
\* "h1:0", "h1:1", "h1:65535", "h1:65536", "h1:x".
StaticValues ==
    { <<"h", "1">>,
      <<"h", "1", ":", "5", "0", "0", "0", "0">>,
      <<>>,
      <<":", "5", "0", "0", "0", "0">>,
      <<"h", "1", ":">>,
      <<"h", "1", ":", "0">>,
      <<"h", "1", ":", "1">>,
      <<"h", "1", ":", "6", "5", "5", "3", "5">>,
      <<"h", "1", ":", "6", "5", "5", "3", "6">>,
      <<"h", "1", ":", "x">> }

\* Before async_setup no SubscriptionRegistry was started or stopped, no
\* listener waits for EVENT_HOMEASSISTANT_STOP and the event was not fired.
InitStatic ==
    /\ conf \in [static : UNION { [1..n -> StaticValues] : n \in 0..MaxStatic },
                 pc : {"start"}, parsed : {<<>>}]
    /\ net = [h \in Hosts |-> IF h = "h1" THEN "Motion" ELSE "Insight"]
    /\ entries = NoEntries
    /\ cache = EmptyCache
    /\ flows = NoFlows
    /\ disc = NoDiscovery
    /\ devreg = {}
    /\ calls = NoCalls
    /\ fwd = NoForwards
    /\ entities = {}
    /\ reloads = {}
    /\ removals = {}
    /\ mig = NoMigrations
    /\ res = IdleRes
    /\ probes = 0
    /\ cl = IdleCl
    /\ hum = NONE
    /\ sensor = NONE
    /\ registry = [starts |-> 0, stops |-> 0, listening |-> FALSE,
                   stop_fired |-> FALSE]

\* async_setup_component(hass, DOMAIN, config): the configuration is
\* validated with CONFIG_SCHEMA; if that fails the setup fails and
\* async_setup is not called; otherwise async_setup creates the
\* SubscriptionRegistry and awaits the executor job of registry.start.
SetupComponent ==
    /\ conf.pc = "start"
    /\ LET validated == CONFIG_SCHEMA(conf.static)
       IN  conf' = IF validated.ok
                   THEN [conf EXCEPT !.pc = "starting",
                                     !.parsed = validated.static]
                   ELSE [conf EXCEPT !.pc = "failed"]
    /\ UNCHANGED <<net, entries, cache, flows, disc, devreg, calls, fwd,
                   entities, reloads, removals, mig, res, probes, cl, hum,
                   sensor, registry>>

\* The executor job ran registry.start and async_setup resumes after the
\* await: it registers stop_wemo with async_listen_once for
\* EVENT_HOMEASSISTANT_STOP and creates one import flow task per
\* (host, port) of the list (the tasks run as ImportTask).
RegistryStarted ==
    /\ conf.pc = "starting"
    /\ conf' = [conf EXCEPT !.pc = "set_up"]
    /\ registry' = [registry EXCEPT !.starts = @ + 1, !.listening = TRUE]
    /\ UNCHANGED <<net, entries, cache, flows, disc, devreg, calls, fwd,
                   entities, reloads, removals, mig, res, probes, cl, hum,
                   sensor>>

\* The host fires EVENT_HOMEASSISTANT_STOP, once, while it runs (the
\* component setup has begun or has failed): a listener registered with
\* async_listen_once is removed and called, and stop_wemo calls
\* registry.stop().
StopEvent ==
    /\ conf.pc \in {"starting", "set_up", "failed"}
    /\ ~registry.stop_fired
    /\ registry' = [registry EXCEPT
                      !.stop_fired = TRUE,
                      !.listening = FALSE,
                      !.stops = IF registry.listening THEN @ + 1 ELSE @]
    /\ UNCHANGED <<net, entries, cache, flows, disc, devreg, calls, fwd,
                   entities, reloads, removals, mig, res, probes, cl, conf,
                   hum, sensor>>

\* The task async_setup created for item f of the list runs:
\* flow.async_init(DOMAIN, context={"source": SOURCE_IMPORT}, data=data).
ImportTask(f) ==
    /\ conf.pc = "set_up"
    /\ f \in 1..Len(conf.parsed)
    /\ StartImport(f, conf.parsed[f].host, conf.parsed[f].port)

NextStatic ==
    \/ SetupComponent
    \/ RegistryStarted
    \/ StopEvent
    \/ \E f \in FlowIds : ImportTask(f)
    \/ \E f \in FlowIds : FlowJobDone(f)

SpecStatic == InitStatic /\ [][NextStatic]_vars

(***************************************************************************)
(* Specification SpecHumidifier: the updates and commands of a            *)
(* WemoHumidifier entity (fan.py) and the updates of a WemoBinarySensor    *)
(* (binary_sensor.py)                                                      *)
(***************************************************************************)
\* The service calls tried with target humidities (0 - 1)..MaxTarget.
MaxTarget == 101

\* WEMO_FAN_SPEED_TO_HASS, in the order the dict is written.
WEMO_FAN_SPEED_TO_HASS ==
    << <<"Off", "off">>, <<"Minimum", "low">>, <<"Low", "low">>,
       <<"Medium", "medium">>, <<"High", "high">>, <<"Maximum", "high">> >>

\* The inverse of WEMO_FAN_SPEED_TO_HASS with no mode filtered out.
HassFanSpeedToWemoUnfiltered ==
    [speed \in {WEMO_FAN_SPEED_TO_HASS[i][2] :
                  i \in DOMAIN WEMO_FAN_SPEED_TO_HASS} |->
        LET last == CHOOSE i \in DOMAIN WEMO_FAN_SPEED_TO_HASS :
                       /\ WEMO_FAN_SPEED_TO_HASS[i][2] = speed
                       /\ \A j \in DOMAIN WEMO_FAN_SPEED_TO_HASS :
                             WEMO_FAN_SPEED_TO_HASS[j][2] = speed => j <= i
        IN  WEMO_FAN_SPEED_TO_HASS[last][1]]

\* HASS_FAN_SPEED_TO_WEMO = {v: k for (k, v) in WEMO_FAN_SPEED_TO_HASS.items()
\* if k not in [FanMode.Low, FanMode.High]}: a later item of the same speed
\* replaces an earlier one.
HASS_FAN_SPEED_TO_WEMO ==
    LET kept(pair) == pair[1] \notin {"Low", "High"}
        items == SelectSeq(WEMO_FAN_SPEED_TO_HASS, kept)
    IN  [speed \in {items[i][2] : i \in DOMAIN items} |->
            LET last == CHOOSE i \in DOMAIN items :
                           /\ items[i][2] = speed
                           /\ \A j \in DOMAIN items :
                                 items[j][2] = speed => j <= i
            IN  items[last][1]]

\* set_humidity with the band limits taken as inclusive upper limits.
PywemoHumidityInclusive(target_humidity) ==
    IF target_humidity <= 50 THEN "FortyFivePercent"
    ELSE IF target_humidity <= 55 THEN "FiftyPercent"
    ELSE IF target_humidity <= 60 THEN "FiftyFivePercent"
    ELSE IF target_humidity <= 100 THEN "SixtyPercent"
    ELSE "OneHundredPercent"

\* set_humidity: the if/elif chain that chooses pywemo_humidity; the name
\* stays unbound when no branch is taken.
pywemo_humidity(target_humidity) ==
    IF target_humidity < 50 THEN "FortyFivePercent"
    ELSE IF 50 <= target_humidity /\ target_humidity < 55
    THEN "FiftyPercent"
    ELSE IF 55 <= target_humidity /\ target_humidity < 60
    THEN "FiftyFivePercent"
    ELSE IF 60 <= target_humidity /\ target_humidity < 100
    THEN "SixtyPercent"
    ELSE IF target_humidity >= 100 THEN "OneHundredPercent"
    ELSE "unbound"

\* WemoHumidifier.__init__ and, for the sensor, WemoBinarySensor as
\* constructed; op, arg, sent and raised are bookkeeping: the
\* last operation, its argument, the device calls it made and whether one of
\* them raised a device error; scheduled is the state write
\* schedule_update_ha_state asked for.
InitHumidifier ==
    /\ hum = [fan_mode |-> NONE, last_fan_on_mode |-> "Medium",
              available |-> TRUE, op |-> NONE, arg |-> NONE, sent |-> <<>>,
              raised |-> FALSE, scheduled |-> FALSE]
    /\ sensor = [available |-> TRUE, op |-> NONE, sent |-> <<>>,
                 raised |-> FALSE]
    /\ registry = NONE
    /\ net = [h \in Hosts |-> "Humidifier"]
    /\ cache = EmptyCache
    /\ res = IdleRes
    /\ probes = 0
    /\ cl = IdleCl
    /\ conf = IdleConf
    /\ entries = NoEntries
    /\ flows = NoFlows
    /\ disc = NoDiscovery
    /\ devreg = {}
    /\ calls = NoCalls
    /\ fwd = NoForwards
    /\ entities = {}
    /\ reloads = {}
    /\ removals = {}
    /\ mig = NoMigrations

\* WemoHumidifier.set_speed(speed); fails: wemo.set_state raises
\* ActionException.
SetSpeed(speed, fails) ==
    /\ hum' = [hum EXCEPT
                 !.op = "set_speed", !.arg = speed,
                 !.sent = << [method |-> "set_state",
                              arg |-> DictGet(HASS_FAN_SPEED_TO_WEMO, speed,
                                              NONE)] >>,
                 !.raised = fails,
                 !.available = IF fails THEN FALSE ELSE @,
                 !.scheduled = TRUE]
    /\ UNCHANGED <<net, entries, cache, flows, disc, devreg, calls, fwd,
                   entities, reloads, removals, mig, res, probes, cl, conf,
                   sensor, registry>>

\* WemoHumidifier.turn_off()
TurnOff(fails) ==
    /\ hum' = [hum EXCEPT
                 !.op = "turn_off", !.arg = NONE,
                 !.sent = << [method |-> "set_state", arg |-> "Off"] >>,
                 !.raised = fails,
                 !.available = IF fails THEN FALSE ELSE @,
                 !.scheduled = TRUE]
    /\ UNCHANGED <<net, entries, cache, flows, disc, devreg, calls, fwd,
                   entities, reloads, removals, mig, res, probes, cl, conf,
                   sensor, registry>>

\* The set_humidity service: SET_HUMIDITY_SCHEMA admits the targets of
\* Range(min=0, max=100), then WemoHumidifier.set_humidity(target_humidity).
SetHumidity(target_humidity, fails) ==
    /\ 0 <= target_humidity /\ target_humidity <= 100
    /\ hum' = [hum EXCEPT
                 !.op = "set_humidity", !.arg = target_humidity,
                 !.sent = << [method |-> "set_humidity",
                              arg |-> pywemo_humidity(target_humidity)] >>,
                 !.raised = fails,
                 !.available = IF fails THEN FALSE ELSE @,
                 !.scheduled = TRUE]
    /\ UNCHANGED <<net, entries, cache, flows, disc, devreg, calls, fwd,
                   entities, reloads, removals, mig, res, probes, cl, conf,
                   sensor, registry>>

\* _update with every observed mode remembered as the last-on mode.
UpdateRemembersOff(mode, raises) ==
    /\ hum' = [hum EXCEPT
                 !.op = "update", !.arg = mode,
                 !.sent = << [method |-> "get_state", arg |-> TRUE] >>
                          \o (IF raises = NONE THEN <<>>
                              ELSE << [method |-> "reconnect_with_device",
                                       arg |-> NONE] >>),
                 !.raised = raises # NONE,
                 !.fan_mode = IF raises = "get_state" THEN @ ELSE mode,
                 !.last_fan_on_mode = IF raises = NONE THEN mode ELSE @,
                 !.available = raises = NONE]
    /\ UNCHANGED <<net, entries, cache, flows, disc, devreg, calls, fwd,
                   entities, reloads, removals, mig, res, probes, cl, conf,
                   sensor, registry>>

\* WemoHumidifier._update(force_update=True) while the device reports the fan
\* mode `mode`; raises: NONE, or the device call of the try block that raises
\* AttributeError or ActionException: "get_state", or "attribute", one of the
\* attribute reads after fan_mode_string.
Update(mode, raises) ==
    /\ hum' = [hum EXCEPT
                 !.op = "update", !.arg = mode,
                 !.sent = << [method |-> "get_state", arg |-> TRUE] >>
                          \o (IF raises = NONE THEN <<>>
                              ELSE << [method |-> "reconnect_with_device",
                                       arg |-> NONE] >>),
                 !.raised = raises # NONE,
                 !.fan_mode = IF raises = "get_state" THEN @ ELSE mode,
                 !.last_fan_on_mode =
                     IF raises = NONE /\ mode # "Off" THEN mode ELSE @,
                 !.available = raises = NONE]
    /\ UNCHANGED <<net, entries, cache, flows, disc, devreg, calls, fwd,
                   entities, reloads, removals, mig, res, probes, cl, conf,
                   sensor, registry>>

\* WemoHumidifier.turn_on(speed): without a speed (NONE) the remembered
\* last-on mode is sent, with one the call is set_speed(speed).
TurnOn(speed, fails) ==
    /\ hum' = [hum EXCEPT
                 !.op = "turn_on", !.arg = speed,
                 !.sent = << [method |-> "set_state",
                              arg |-> IF speed = NONE
                                      THEN hum.last_fan_on_mode
                                      ELSE DictGet(HASS_FAN_SPEED_TO_WEMO,
                                                   speed, NONE)] >>,
                 !.raised = fails,
                 !.available = IF fails THEN FALSE ELSE @,
                 !.scheduled = TRUE]
    /\ UNCHANGED <<net, entries, cache, flows, disc, devreg, calls, fwd,
                   entities, reloads, removals, mig, res, probes, cl, conf,
                   sensor, registry>>

\* WemoBinarySensor._update where an update that raises nothing leaves the
\* availability as it was.
SensorUpdateWithoutRecovery(raises) ==
    /\ sensor' = [sensor EXCEPT
                    !.op = "update",
                    !.sent = << [method |-> "get_state", arg |-> TRUE] >>
                             \o (IF raises
                                 THEN << [method |-> "reconnect_with_device",
                                          arg |-> NONE] >>
                                 ELSE <<>>),
                    !.raised = raises,
                    !.available = IF raises THEN FALSE ELSE @]
    /\ UNCHANGED <<net, entries, cache, flows, disc, devreg, calls, fwd,
                   entities, reloads, removals, mig, res, probes, cl, conf,
                   hum, registry>>

\* WemoBinarySensor._update(force_update=True); raises: wemo.get_state
\* raises AttributeError or ActionException.
SensorUpdate(raises) ==
    /\ sensor' = [sensor EXCEPT
                    !.op = "update",
                    !.sent = << [method |-> "get_state", arg |-> TRUE] >>
                             \o (IF raises
                                 THEN << [method |-> "reconnect_with_device",
                                          arg |-> NONE] >>
                                 ELSE <<>>),
                    !.raised = raises,
                    !.available = ~raises]
    /\ UNCHANGED <<net, entries, cache, flows, disc, devreg, calls, fwd,
                   entities, reloads, removals, mig, res, probes, cl, conf,
                   hum, registry>>

\* The reset_filter_life service: WemoHumidifier.reset_filter_life().
ResetFilterLife(fails) ==
    /\ hum' = [hum EXCEPT
                 !.op = "reset_filter_life", !.arg = NONE,
                 !.sent = << [method |-> "reset_filter_life",
                              arg |-> NONE] >>,
                 !.raised = fails,
                 !.available = IF fails THEN FALSE ELSE @,
                 !.scheduled = TRUE]
    /\ UNCHANGED <<net, entries, cache, flows, disc, devreg, calls, fwd,
                   entities, reloads, removals, mig, res, probes, cl, conf,
                   sensor, registry>>

NextHumidifier ==
    \/ \E raises \in BOOLEAN : SensorUpdate(raises)
    \/ \E mode \in {WEMO_FAN_SPEED_TO_HASS[i][1] :
                       i \in DOMAIN WEMO_FAN_SPEED_TO_HASS},
          raises \in {NONE, "get_state", "attribute"} :
          Update(mode, raises)
    \/ \E speed \in {NONE, "off", "low", "medium", "high"},
          fails \in BOOLEAN :
          TurnOn(speed, fails)
    \/ \E speed \in {"off", "low", "medium", "high"}, fails \in BOOLEAN :
          SetSpeed(speed, fails)
    \/ \E fails \in BOOLEAN : TurnOff(fails)
    \/ \E target \in (0 - 1)..MaxTarget, fails \in BOOLEAN :
          SetHumidity(target, fails)
    \/ \E fails \in BOOLEAN : ResetFilterLife(fails)

SpecHumidifier == InitHumidifier /\ [][NextHumidifier]_vars

(***************************************************************************)
(* Claims                                                                  *)
(***************************************************************************)
\* The records that carry unique_id in the record set es.
NoTwoRecordsShareUniqueId(es) ==
    \A a, b \in DOMAIN es : a # b => es[a].unique_id # es[b].unique_id

\* C1: after any sequence of flows no two records have the same unique_id,
\* and a flow whose unique_id matches an existing record never creates a
\* second record (no step adds a record for a unique_id that a record of
\* the step's start already has).
C1_NoSecondRecord ==
    [][ /\ NoTwoRecordsShareUniqueId(entries')
        /\ \A e \in DOMAIN entries' \ DOMAIN entries :
              EntriesWithUid(entries, entries'[e].unique_id) = {} ]_vars

\* The static list held one endpoint twice and everything it started has
\* run to its end: both import flows ended, the record is set up and its
\* platform setup has finished.
StaticDuplicateSettled ==
    /\ \A f \in SetupFlowIds :
          /\ flows[f].pc = "done"
          /\ flows[f].source = "import"
          /\ flows[f].result \in {"create_entry", "abort"}
          /\ flows[f].input = flows[1].input
    /\ reloads = {}
    /\ \A e \in DOMAIN entries :
          /\ entries[e].state = "loaded"
          /\ calls[e].kind = NONE
          /\ fwd[e].status \in {"set_up", "key_error"}

\* C2: two import flows for the same host:port end, under every
\* interleaving, with exactly one record and exactly one entity for the
\* device.
C2_OneRecordOneEntity ==
    StaticDuplicateSettled =>
        /\ Cardinality(EntriesWithUid(entries, SerialAt(flows[1].input.host)))
             = 1
        /\ Cardinality({x \in entities :
                          x.serial = SerialAt(flows[1].input.host)}) = 1

\* Flow f, an ssdp or import flow, comes in this step to carry the
\* unique_id of record e (the serial number its discovery names, or that of
\* the device it resolved), which is stored with another host or port than
\* the flow supplies.
CarriesMovedUniqueId(f, e) ==
    /\ flows[f].pc \in {"free", "resolving"}
    /\ flows[f].uid = NONE
    /\ flows'[f].source \in {"ssdp", "import"}
    /\ flows'[f].pc = "done"
    /\ flows'[f].input.host # NONE
    /\ flows'[f].input.port # PortAbsent
    /\ entries[e].unique_id = SerialAt(flows'[f].input.host)
    /\ \/ entries[e].host # flows'[f].input.host
       \/ entries[e].port # flows'[f].input.port

\* C3: an ssdp or import flow that carries the unique_id of a record
\* stored with a different host or port aborts as already_configured, the
\* record's host and port become the flow's, and the number of records is
\* unchanged.
C3_AddressFollowsFlow ==
    [][ \A f \in FlowIds : \A e \in DOMAIN entries :
          CarriesMovedUniqueId(f, e) =>
             /\ flows'[f].result = "abort"
             /\ flows'[f].reason = "already_configured"
             /\ DOMAIN entries' = DOMAIN entries
             /\ entries'[e].host = flows'[f].input.host
             /\ entries'[e].port = flows'[f].input.port ]_vars

\* C4: every record a flow created has as unique_id the serial number of
\* the device that was resolved at the record's host and port.
C4_UniqueIdIsResolvedSerial ==
    \A e \in DOMAIN entries : entries[e].unique_id = entries[e].resolved

\* This step is a successful async_setup_entry of entry e: the entry
\* becomes loaded, at its first setup, a retry, or a reload.
SetupSucceeds(e) ==
    /\ e \in DOMAIN entries
    /\ e \in DOMAIN entries'
    /\ entries'[e].state = "loaded"
    /\ \/ entries[e].state # "loaded"
       \/ e \in reloads /\ e \notin reloads'

\* The host of the device this setup of entry e resolved: the one the
\* executor job was given, or on a cache hit the record's.
ResolvedHost(e) ==
    IF calls[e].kind = "setup" THEN calls[e].host ELSE entries[e].host

\* C5: after every successful async_setup_entry the stored category is
\* classify(model_name) of the resolved device and the entry is forwarded
\* to exactly that platform; a missing or different stored category is
\* updated in place (host, port, unique_id unchanged, no record added), an
\* agreeing one is not written.
C5_CategoryReconciled ==
    [][ \A e \in EntryIds :
          SetupSucceeds(e) =>
             /\ ResolvedHost(e) \in Hosts
             /\ LET model == net[ResolvedHost(e)]
                    category ==
                      CASE model \in {"Bridge", "Dimmer"} -> "light"
                        [] model = "Humidifier" -> "fan"
                        [] model \in {"Motion", "Sensor"} -> "binary_sensor"
                        [] OTHER -> "switch"
                IN  /\ entries'[e].domain = category
                    /\ fwd'[e].domain = category
                    /\ fwd'[e].status = "scheduled"
                    /\ fwd'[e].wrote = (entries[e].domain # category)
             /\ entries'[e].host = entries[e].host
             /\ entries'[e].port = entries[e].port
             /\ entries'[e].unique_id = entries[e].unique_id
             /\ DOMAIN entries' = DOMAIN entries
             /\ \A x \in DOMAIN entries \ {e} : entries'[x] = entries[x]
      ]_vars

\* A record stored with a stale category was set up and its category
\* rewritten.
C5_Witness ==
    \E e \in DOMAIN entries :
        /\ entries[e].state = "loaded"
        /\ fwd[e].wrote
        /\ fwd[e].domain = BINARY_SENSOR_DOMAIN
        /\ entries[e].domain = BINARY_SENSOR_DOMAIN
        /\ entries[e].source = "import"
        /\ flows[1].pc = "free"

\* C6: the mapping used by async_setup_entry is total: Bridge and Dimmer give
\* light, Humidifier fan, Motion and Sensor binary_sensor, CoffeeMaker,
\* Insight, LightSwitch, Maker and Socket switch, every other name switch.
C6_MappingTotal ==
    cl.pc # "start" =>
        /\ cl.domain \in Domains
        /\ cl.model \in {"Bridge", "Dimmer"} => cl.domain = "light"
        /\ cl.model = "Humidifier" => cl.domain = "fan"
        /\ cl.model \in {"Motion", "Sensor"} => cl.domain = "binary_sensor"
        /\ cl.model \in {"CoffeeMaker", "Insight", "LightSwitch", "Maker",
                         "Socket"} => cl.domain = "switch"
        /\ cl.model \notin {"Bridge", "Dimmer", "Humidifier", "Motion",
                            "Sensor"} => cl.domain = "switch"

\* A model name the table does not hold was classified as switch.
C6_Witness ==
    /\ cl.pc = "updated"
    /\ cl.model = "OutdoorPlug"
    /\ cl.domain = SWITCH_DOMAIN

\* The executor job of call c ends in this step.
JobEnds(c) == res[c].pc = "awaiting" /\ res'[c].pc # "awaiting"

\* C7: resolving (host, 0) when the probe returns no URL fails with
\* CannotDeterminePortError, without a description fetch and without
\* inserting anything into the cache.
C7_PortUndetermined ==
    [][ \A c \in CallIds :
          (JobEnds(c) /\ res[c].port = 0 /\ res'[c].probed = 0) =>
             /\ res'[c].pc = "raised"
             /\ res'[c].kind = "CannotDeterminePortError"
             /\ ~res'[c].fetched
             /\ cache' = cache ]_vars

\* A resolution of (host, 0) ended with the probe finding no port.
C7_Witness ==
    \E c \in CallIds :
        /\ res[c].pc = "raised"
        /\ res[c].port = 0
        /\ res[c].probed = 0
        /\ res[c].kind = "CannotDeterminePortError"

\* C8: resolving (host, port) when the description fetch raises a connection
\* error or timeout fails with ConnectError carrying the original error as
\* its cause, and the cache is unchanged.
C8_ConnectErrorKeepsCause ==
    [][ \A c \in CallIds :
          (JobEnds(c) /\ res'[c].fetched /\ res'[c].fault # "ok") =>
             /\ res'[c].pc = "raised"
             /\ res'[c].kind = "ConnectError"
             /\ res'[c].cause = res'[c].fault
             /\ res'[c].device = NoDevice
             /\ cache' = cache ]_vars

\* A fetch timed out and the call raised ConnectError from the timeout.
C8_Witness ==
    \E c \in CallIds :
        /\ res[c].pc = "raised"
        /\ res[c].fetched
        /\ res[c].fault = "Timeout"
        /\ res[c].cause = "Timeout"
        /\ res[c].kind = "ConnectError"

\* The resolution awaited by async_setup_entry for entry e fails in this
\* step.
SetupResolutionFails(e) ==
    /\ e \in DOMAIN entries
    /\ calls[e].kind = "setup"
    /\ calls'[e].last \in {"CannotDeterminePortError", "ConnectError"}

\* C9: when the resolution fails during async_setup_entry the entry is not
\* set up: not-ready after the single attempt (no further resolution is
\* started), no platform forwarded, the record's data unchanged.
C9_NotReadyNoForward ==
    [][ \A e \in EntryIds :
          SetupResolutionFails(e) =>
             /\ e \in DOMAIN entries'
             /\ entries'[e].state = "setup_retry"
             /\ calls'[e].kind = NONE
             /\ fwd'[e] = NoForward
             /\ fwd' = fwd
             /\ entities' = entities
             /\ cache' = cache
             /\ [entries'[e] EXCEPT !.state = "x"] =
                [entries[e] EXCEPT !.state = "x"] ]_vars

\* The setup of a record stored without a port failed because the probe
\* found no port, and the entry waits for a retry.
C9_Witness ==
    \E e \in DOMAIN entries :
        /\ entries[e].state = "setup_retry"
        /\ entries[e].port = 0
        /\ calls[e].last = "CannotDeterminePortError"
        /\ calls[e].kind = NONE
        /\ fwd[e] = NoForward

\* Every device of the version-1 record also has a version-2 record.
EveryDeviceHasV2Record ==
    \A x \in async_entries_for_config_entry(devreg, V1Entry) :
        \E e \in x.owners :
            e \in DOMAIN entries /\ entries[e].version = CONFIG_ENTRY_VERSION

\* C10: migrating a version-1 record whose N >= 0 devices all have a
\* version-2 record schedules its removal, the record is eventually removed,
\* and every version-2 record remains.
C10_SupersededRemoved ==
    /\ [][ (MigrateEntry(V1Entry) /\ EveryDeviceHasV2Record) =>
              V1Entry \in removals' ]_vars
    /\ (V1Entry \in removals) ~> (V1Entry \notin DOMAIN entries)
    /\ [][ \A e \in DOMAIN entries :
              entries[e].version = CONFIG_ENTRY_VERSION =>
                 e \in DOMAIN entries' /\ entries'[e] = entries[e] ]_vars

\* The version-1 record of MaxDevices devices was migrated and removed, and
\* the version-2 records of its devices are there.
C10_Witness ==
    /\ V1Entry \notin DOMAIN entries
    /\ V1Entry \in DOMAIN mig
    /\ mig[V1Entry] = "False"
    /\ \A d \in DeviceIds : V2EntryOf(d) \in DOMAIN entries
    /\ Cardinality(devreg) = MaxDevices

\* Some device of the version-1 record has no version-2 record of this
\* integration among its config entries.
SomeDeviceLacksV2Record ==
    \E x \in async_entries_for_config_entry(devreg, V1Entry) :
        \A e \in x.owners :
            ~(e \in DOMAIN entries /\ entries[e].version = CONFIG_ENTRY_VERSION)

\* C11: a migration of the version-1 record while one of its devices lacks
\* a version-2 record retains it: no removal is scheduled and no record
\* goes; a second config entry that is not a version-2 record of this
\* integration does not count.
C11_RetainedWithoutV2 ==
    [][ (MigrateEntry(V1Entry) /\ SomeDeviceLacksV2Record) =>
           /\ V1Entry \notin removals'
           /\ entries' = entries ]_vars

\* Some device of the version-1 record has that record as its only config
\* entry: the migration retains the record.
SomeDeviceOnlyInV1 ==
    \E x \in devreg : x.owners = {V1Entry}

\* C12: async_migrate_entry on a retained version-1 record gives the same
\* outcome every time (False, not yet complete, nothing scheduled) and
\* changes no record, no device-registry entry and no cache entry, so that
\* the next call finds the same state.
C12_RetainIsNoOp ==
    [][ (MigrateEntry(V1Entry) /\ SomeDeviceOnlyInV1) =>
           /\ mig'[V1Entry] = "False"
           /\ removals' = removals
           /\ entries' = entries
           /\ devreg' = devreg
           /\ cache' = cache
           /\ SomeDeviceOnlyInV1' ]_vars

\* The version-1 record was migrated and retained: it is still there, one
\* of its devices has no other config entry, nothing is scheduled.
C12_Witness ==
    /\ V1Entry \in DOMAIN mig
    /\ mig[V1Entry] = "False"
    /\ V1Entry \in DOMAIN entries
    /\ removals = {}
    /\ SomeDeviceOnlyInV1
    /\ \E x \in devreg : V1Entry \in x.owners /\ Cardinality(x.owners) > 1

\* Call c begins in this step; KeyOf is the cache key a call works on.
CallBegins(c) == res[c].pc = "free" /\ res'[c].pc # "free"
KeyOf(call) == CacheKey(call.host, call.port)

\* C13: a successful resolution leaves its handle in the cache under
\* "host:port"; a call that begins while the key is present returns the
\* cached handle without a probe; so a first call (the flow's), then a
\* second (async_setup_entry's) and a taking third (the platform's) for
\* the same key, each begun after the one before returned, make one
\* network resolution and all return the first call's handle.
C13_OneResolution ==
    [][ /\ \A c \in CallIds :
              (JobEnds(c) /\ res'[c].kind = "device") =>
                 /\ KeyOf(res[c]) \in DOMAIN cache'
                 /\ cache'[KeyOf(res[c])] = res'[c].device
        /\ \A c \in CallIds :
              (CallBegins(c) /\ KeyOf(res'[c]) \in DOMAIN cache) =>
                 /\ res'[c].pc = "returned"
                 /\ res'[c].device = cache[KeyOf(res'[c])]
                 /\ probes' = probes
        /\ (/\ CallBegins(2)
            /\ res[1].pc = "returned" /\ ~res[1].remove_cache
            /\ KeyOf(res'[2]) = KeyOf(res[1])) =>
               /\ res'[2].pc = "returned"
               /\ res'[2].device = res[1].device
               /\ probes' = 1
        /\ (/\ CallBegins(3) /\ res'[3].remove_cache
            /\ res[1].pc = "returned" /\ ~res[1].remove_cache
            /\ res[2].pc = "returned" /\ ~res[2].remove_cache
            /\ res[2].job = 0
            /\ KeyOf(res[2]) = KeyOf(res[1])
            /\ KeyOf(res'[3]) = KeyOf(res[1])) =>
               /\ res'[3].pc = "returned"
               /\ res'[3].device = res[1].device
               /\ probes' = 1 ]_vars

\* Three calls for one key, get, get, take, have returned the same handle
\* after a single network resolution.
C13_Witness ==
    /\ \A c \in 1..3 : res[c].pc = "returned" /\ KeyOf(res[c]) = KeyOf(res[1])
    /\ ~res[1].remove_cache /\ ~res[2].remove_cache /\ res[3].remove_cache
    /\ res[2].device = res[1].device /\ res[3].device = res[1].device
    /\ res[1].job = 1
    /\ probes = 1

\* C14: no two calls with remove_cache=True for one key are returned the
\* same device handle.
C14_TakeSingleConsumer ==
    \A c, d \in CallIds :
        (/\ c # d
         /\ res[c].pc = "returned" /\ res[c].remove_cache
         /\ res[d].pc = "returned" /\ res[d].remove_cache
         /\ KeyOf(res[c]) = KeyOf(res[d])) =>
            res[c].device # res[d].device

\* C15: when a call with remove_cache=True returns a handle, hit or miss,
\* the cache holds no entry for its key afterwards.
C15_TakeLeavesNoEntry ==
    [][ \A c \in CallIds :
          (/\ res[c].pc # "returned" /\ res'[c].pc = "returned"
           /\ res'[c].remove_cache) =>
              KeyOf(res'[c]) \notin DOMAIN cache' ]_vars

\* C16: a call that begins while another call for the same key still
\* awaits its network resolution causes no second probe.
C16_ConcurrentDeduplicated ==
    [][ \A c, d \in CallIds :
          (/\ c # d
           /\ CallBegins(d)
           /\ res[c].pc = "awaiting"
           /\ KeyOf(res[c]) = KeyOf(res'[d])) =>
              probes' = probes ]_vars

\* The decimal numeral of n, the ports the claim's mapping is tried on and
\* what the claim calls an entry with an empty host.
RECURSIVE Decimal(_)
Decimal(n) ==
    IF n < 10 THEN <<Digits[n + 1]>>
    ELSE Decimal(n \div 10) \o <<Digits[(n % 10) + 1]>>
PortSamples == {1, MOCK_PORT, 65535}
HasColon(v) == \E k \in 1..Len(v) : v[k] = ":"
EmptyHost(v) == v = <<>> \/ v[1] = ":"

\* C17: the static list is parsed "host" -> (host, 0) and "host:port" ->
\* (host, port) with the port in 1..65535; a list with an empty-host entry
\* is never accepted; and when the validation fails the component setup
\* fails with no import flow started and no resolution made, for the valid
\* entries of the list as well.
C17_StaticParsing ==
    /\ conf.pc = "set_up" =>
          /\ Len(conf.parsed) = Len(conf.static)
          /\ \A i \in 1..Len(conf.static) :
                LET v == conf.static[i]
                    r == conf.parsed[i]
                IN  /\ ~EmptyHost(v)
                    /\ ~HasColon(v) => r = [host |-> StrOf(v), port |-> 0]
                    /\ \A k \in 1..Len(v), p \in PortSamples :
                          v = SubSeq(v, 1, k) \o <<":">> \o Decimal(p) =>
                             r = [host |-> StrOf(SubSeq(v, 1, k)), port |-> p]
                    /\ r.port \in 0..65535
                    /\ r.port # 0 => v = SubSeq(v, 1, Len(v) - Len(Decimal(r.port)))
                                         \o Decimal(r.port)
    /\ conf.pc \in {"start", "failed"} =>
          /\ flows = NoFlows
          /\ cache = EmptyCache
          /\ entries = NoEntries

\* The setup failed for a list of a valid entry followed by an entry with
\* an empty host.
C17_Witness ==
    /\ conf.pc = "failed"
    /\ Len(conf.static) = 2
    /\ coerce_host_port(conf.static[1]).ok
    /\ EmptyHost(conf.static[2])

\* The device of unique_id u has no config record and no device-registry
\* entry; no other flow of unique_id u waits at a form.
NotKnown(u) == EntriesWithUid(entries, u) = {} /\ ~RegistryHasDevice(u)
NoFlowListed(u) ==
    \A g \in FlowIds : ~(Visible(World, g) /\ flows[g].uid = u)

\* What follows the confirm form of an ssdp flow: the flow resolves the
\* discovered address when the user confirms and not before; if the device
\* cannot be resolved the user form shows an error; otherwise the record is
\* created with the device name as title and the discovered host and port.
AfterConfirmForm(f) ==
    (/\ flows[f].source = "ssdp"
     /\ flows[f].cur_step = STEP_ID_CONFIRM
     /\ flows'[f] # flows[f]) =>
        \/ /\ Confirm(f)
           /\ flows'[f].pc = "resolving"
           /\ entries' = entries
        \/ /\ flows[f].pc = "resolving"
           /\ flows'[f].pc = "form"
           /\ flows'[f].cur_step = STEP_ID_USER
           /\ flows'[f].errors # NONE
           /\ entries' = entries
        \/ /\ Confirm(f) \/ flows[f].pc = "resolving"
           /\ flows'[f].pc = "done"
           /\ flows'[f].result = "create_entry"
           /\ flows'[f].entry \in DOMAIN entries'
           /\ entries'[flows'[f].entry].title =
                 NameOf(SerialAt(flows[f].ctx.host))
           /\ entries'[flows'[f].entry].host = flows[f].ctx.host
           /\ entries'[flows'[f].entry].port = flows[f].ctx.port

\* C18 as stated: every SSDP discovery of a device with no record and no
\* device-registry entry stops at the confirm form, with no resolution and
\* no record before the user confirms, and the confirmation of a reachable
\* device creates the record named after the device at the discovered
\* host and port.
C18_SsdpStopsAtConfirm ==
    [][ \A f \in FlowIds :
          /\ \A h \in SsdpHosts, p \in SsdpPorts :
                (/\ flows'[f].source = "ssdp"
                 /\ StartSsdp(f, h, p)
                 /\ NotKnown(SerialAt(h))) =>
                   /\ flows'[f].pc = "form"
                   /\ flows'[f].cur_step = STEP_ID_CONFIRM
                   /\ entries' = entries
                   /\ cache' = cache
          /\ AfterConfirmForm(f) ]_vars

\* C18 amended: the same for a discovery that arrives while no other flow
\* of that unique_id waits at a form (a discovery that does is aborted as
\* already_in_progress, also without a resolution and without a record).
C18_FirstSsdpStopsAtConfirm ==
    [][ \A f \in FlowIds :
          /\ \A h \in SsdpHosts, p \in SsdpPorts :
                (/\ flows'[f].source = "ssdp"
                 /\ StartSsdp(f, h, p)
                 /\ NotKnown(SerialAt(h))) =>
                   /\ entries' = entries
                   /\ cache' = cache
                   /\ IF NoFlowListed(SerialAt(h))
                      THEN /\ flows'[f].pc = "form"
                           /\ flows'[f].cur_step = STEP_ID_CONFIRM
                      ELSE /\ flows'[f].pc = "done"
                           /\ flows'[f].reason = "already_in_progress"
          /\ AfterConfirmForm(f) ]_vars

\* An ssdp flow of a device that was in no record and no registry has
\* created the record.
C18_Witness ==
    \E f \in FlowIds :
        /\ devreg = {}
        /\ flows[f].source = "ssdp"
        /\ flows[f].result = "create_entry"
        /\ flows[f].entry \in DOMAIN entries
        /\ entries[flows[f].entry].unique_id = flows[f].uid
        /\ entries[flows[f].entry].port = MOCK_PORT

\* The executor job of flow f ends with an outcome of the given kind and
\* async_step_user runs to its end.
FlowJobEnds(f, kind) ==
    /\ flows[f].pc = "resolving"
    /\ flows'[f].pc # "resolving"
    /\ \E outcome \in Outcomes(DataOf(flows[f].input).host,
                               DataOf(flows[f].input).port, 0) :
          /\ outcome.kind = kind
          /\ Commit(StepUserResumed(World, f, outcome))

\* Flow f ends in this step with the record entries'[flows'[f].entry].
CreatesRecord(f) ==
    /\ flows'[f].pc = "done"
    /\ flows'[f].result = "create_entry"
    /\ flows'[f].entry \in DOMAIN entries'

ConnectErrorAsksAgain(f) ==
    FlowJobEnds(f, "ConnectError") =>
       /\ flows'[f].pc = "form"
       /\ flows'[f].cur_step = STEP_ID_USER
       /\ flows'[f].errors = ERROR_CANNOT_CONNECT
       /\ flows'[f].progress
       /\ entries' = entries

\* A submission made at the cannot_connect form resolves a device in this
\* step, by its executor job or from the cache.
LaterSubmissionResolves(f) ==
    /\ flows[f].errors = ERROR_CANNOT_CONNECT
    /\ \/ FlowJobEnds(f, "device")
       \/ /\ \E h \in Hosts, p \in UserPorts : SubmitUser(f, h, p)
          /\ flows'[f].pc # "resolving"

RecordOfSubmission(f) ==
    /\ CreatesRecord(f)
    /\ entries'[flows'[f].entry].host = DataOf(flows'[f].input).host
    /\ entries'[flows'[f].entry].port = DataOf(flows'[f].input).port

\* C20: a ConnectError inside a flow shows the user form with
\* cannot_connect, creates no record and keeps the flow in progress, and a
\* later submission for a reachable device completes the flow: with a
\* record, or, when the flow has no unique_id yet and the resolved serial
\* already has a flow waiting at a form or a record, with the abort
\* already_in_progress or already_configured.
C20_RetryCompletesFlow ==
    [][ \A f \in FlowIds :
          /\ ConnectErrorAsksAgain(f)
          /\ LaterSubmissionResolves(f) =>
               LET serial == SerialAt(DataOf(flows'[f].input).host)
               IN  IF flows[f].uid = NONE /\ ~NoFlowListed(serial)
                   THEN /\ flows'[f].pc = "done"
                        /\ flows'[f].reason = "already_in_progress"
                        /\ entries' = entries
                   ELSE IF /\ flows[f].uid = NONE
                           /\ EntriesWithUid(entries, serial) # {}
                   THEN /\ flows'[f].pc = "done"
                        /\ flows'[f].reason = "already_configured"
                        /\ DOMAIN entries' = DOMAIN entries
                   ELSE RecordOfSubmission(f) ]_vars

\* A submission without a port whose resolution ends with
\* CannotDeterminePortError: the user form with cannot_determine_port and
\* the port field required, no record.
PortUndeterminedAsksForPort(f) ==
    (/\ flows[f].input.port = PortAbsent
     /\ FlowJobEnds(f, "CannotDeterminePortError")) =>
       /\ flows'[f].pc = "form"
       /\ flows'[f].cur_step = STEP_ID_USER
       /\ flows'[f].errors = ERROR_CANNOT_DETERMINE_PORT
       /\ flows'[f].port_required
       /\ entries' = entries

\* Every submission the cannot_determine_port form accepts carries a port;
\* nothing else that happens to the waiting flow creates a record of it.
PortlessSubmissionRejected(f) ==
    (/\ flows[f].pc = "form"
     /\ flows[f].errors = ERROR_CANNOT_DETERMINE_PORT
     /\ flows'[f] # flows[f]) =>
       \/ flows'[f].input.port \notin {PortAbsent, PortNone}
       \/ /\ flows'[f].input = NoInput
          /\ flows'[f].result # "create_entry"

\* A submission with a port made at the cannot_determine_port form resolves
\* a device in this step, by its executor job or from the cache.
PortSubmissionResolves(f) ==
    /\ flows[f].errors = ERROR_CANNOT_DETERMINE_PORT
    /\ \/ FlowJobEnds(f, "device")
       \/ /\ \E h \in Hosts : SubmitUser(f, h, MOCK_PORT)
          /\ flows'[f].pc # "resolving"

\* C21 as stated: a submission without a port that fails with the
\* port-undetermined error shows the user form with cannot_determine_port
\* and the port required; that form accepts no submission without a port;
\* a submission with a port for a reachable device creates the record.
C21_PortFormThenRecord ==
    [][ \A f \in FlowIds :
          /\ PortUndeterminedAsksForPort(f)
          /\ PortlessSubmissionRejected(f)
          /\ PortSubmissionResolves(f) => RecordOfSubmission(f) ]_vars

\* C21 amended: the same, except that the submission with a port ends the
\* flow with the abort already_in_progress or already_configured, and no
\* new record, when the flow has no unique_id yet and the resolved serial
\* already has a flow waiting at a form or a record.
C21_PortFormThenRecordOrAbort ==
    [][ \A f \in FlowIds :
          /\ PortUndeterminedAsksForPort(f)
          /\ PortlessSubmissionRejected(f)
          /\ PortSubmissionResolves(f) =>
               LET serial == SerialAt(DataOf(flows'[f].input).host)
               IN  IF flows[f].uid = NONE /\ ~NoFlowListed(serial)
                   THEN /\ flows'[f].pc = "done"
                        /\ flows'[f].reason = "already_in_progress"
                        /\ entries' = entries
                   ELSE IF /\ flows[f].uid = NONE
                           /\ EntriesWithUid(entries, serial) # {}
                   THEN /\ flows'[f].pc = "done"
                        /\ flows'[f].reason = "already_configured"
                        /\ DOMAIN entries' = DOMAIN entries
                   ELSE RecordOfSubmission(f) ]_vars

\* A flow that was shown the cannot_determine_port form has submitted a
\* host with a port and resolves it.
C21_Witness ==
    \E f \in FlowIds :
        /\ flows[f].source = "user"
        /\ flows[f].pc = "resolving"
        /\ flows[f].errors = ERROR_CANNOT_DETERMINE_PORT
        /\ flows[f].port_required
        /\ flows[f].input.port = MOCK_PORT

\* Flow f starts in this step as the unignore request for unique_id u.
UnignoreRequested(f, u) ==
    /\ flows[f].pc = "free"
    /\ flows'[f].source = "unignore"
    /\ StartUnignore(f, u)

\* Flow f waits at the confirm step with the saved discovery of u as its
\* pending user input.
BackAtConfirm(f, u) ==
    /\ flows'[f].pc = "form"
    /\ flows'[f].cur_step = STEP_ID_CONFIRM
    /\ flows'[f].ctx = [host |-> disc[u].host, port |-> disc[u].port]

NoDevicesFound(f) ==
    /\ flows'[f].pc = "done"
    /\ flows'[f].result = "abort"
    /\ flows'[f].reason = REASON_NO_DEVICES_FOUND
    /\ entries' = entries
    /\ cache' = cache

\* C22 as stated: an unignore request for a unique_id puts the flow at the
\* confirm step, with the saved host and port as pending user input, if and
\* only if an SSDP discovery of that unique_id was received before;
\* otherwise it aborts with no_devices_found and creates nothing.
C22_UnignoreBackAtConfirm ==
    [][ \A f \in FlowIds, u \in Serials :
          UnignoreRequested(f, u) =>
             IF u \in DOMAIN disc
             THEN BackAtConfirm(f, u)
             ELSE NoDevicesFound(f) ]_vars

\* C22 amended: an unignore request re-runs the SSDP step with the saved
\* discovery if and only if one was received before, and otherwise aborts
\* with no_devices_found. The re-run stops at the confirm step when the
\* unique_id has no flow waiting at a form, no record and no device-registry
\* entry; it aborts as already_in_progress or already_configured in the
\* first two cases and goes on to the resolution of the saved address, with
\* no confirm form, for a device of the registry.
C22_UnignoreRerunsDiscovery ==
    [][ \A f \in FlowIds, u \in Serials :
          UnignoreRequested(f, u) =>
             IF u \notin DOMAIN disc THEN NoDevicesFound(f)
             ELSE IF ~NoFlowListed(u)
             THEN /\ flows'[f].pc = "done"
                  /\ flows'[f].reason = "already_in_progress"
                  /\ entries' = entries
             ELSE IF EntriesWithUid(entries, u) # {}
             THEN /\ flows'[f].pc = "done"
                  /\ flows'[f].reason = "already_configured"
                  /\ DOMAIN entries' = DOMAIN entries
             ELSE IF RegistryHasDevice(u)
             THEN /\ flows'[f].cur_step = NONE
                  /\ flows'[f].input = [host |-> disc[u].host,
                                        port |-> disc[u].port]
                  /\ flows'[f].pc = "resolving" \/ CreatesRecord(f)
             ELSE /\ BackAtConfirm(f, u)
                  /\ entries' = entries
                  /\ cache' = cache ]_vars

\* An unignore flow waits at the confirm step with the address of the saved
\* discovery, after the discovery flow itself has ended.
C22_Witness ==
    \E f \in FlowIds :
        /\ flows[f].source = "unignore"
        /\ flows[f].pc = "form"
        /\ flows[f].cur_step = STEP_ID_CONFIRM
        /\ flows[f].uid \in DOMAIN disc
        /\ flows[f].ctx.host = disc[flows[f].uid].host
        /\ flows[f].ctx.port = disc[flows[f].uid].port
        /\ \E g \in FlowIds : flows[g].source = "ssdp" /\ flows[g].pc = "done"

\* The platform setup of entry e has run to its end, and not with a
\* failed resolution of the device (the device became unreachable).
PlatformSetupEnded(e) ==
    /\ entries[e].state = "loaded"
    /\ fwd[e].status \notin {NONE, "scheduled", "awaiting", "not_ready"}

\* C23: for every entry whose setup succeeded, whatever its category (fan
\* included), the platform setup of that category obtains the entry's
\* device and adds exactly one entity for it; it never fails on state that
\* no earlier operation has populated.
C23_PlatformAddsOneEntity ==
    \A e \in DOMAIN entries :
        PlatformSetupEnded(e) =>
           /\ fwd[e].status = "set_up"
           /\ Cardinality({x \in entities :
                             x.entry = e /\ x.domain = fwd[e].domain}) = 1

\* C24: set_speed sends exactly one device state for each supported speed:
\* high sends Maximum, medium Medium, low Minimum and off Off; turn_off
\* sends Off and nothing else.
C24_SpeedSendsOneState ==
    /\ hum.op = "set_speed" =>
          /\ Len(hum.sent) = 1
          /\ hum.sent[1].method = "set_state"
          /\ hum.sent[1].arg =
                CASE hum.arg = "high" -> "Maximum"
                  [] hum.arg = "medium" -> "Medium"
                  [] hum.arg = "low" -> "Minimum"
                  [] hum.arg = "off" -> "Off"
    /\ hum.op = "turn_off" =>
          hum.sent = << [method |-> "set_state", arg |-> "Off"] >>

\* set_speed("low") has sent Minimum.
C24_Witness ==
    /\ hum.op = "set_speed"
    /\ hum.arg = "low"
    /\ hum.sent = << [method |-> "set_state", arg |-> "Minimum"] >>

\* The percentage a DesiredHumidity setting stands for (0 for none).
PercentOf(setting) ==
    CASE setting = "FortyFivePercent" -> 45
      [] setting = "FiftyPercent" -> 50
      [] setting = "FiftyFivePercent" -> 55
      [] setting = "SixtyPercent" -> 60
      [] setting = "OneHundredPercent" -> 100
      [] OTHER -> 0

\* C25: set_humidity sends, for every target in 0..100, exactly one device
\* setting: 45 percent below 50, 50 percent from 50 up to but not including
\* 55, 55 percent from 55 up to but not including 60, 60 percent from 60 up
\* to but not including 100, and 100 percent at 100; no smaller target gets
\* a larger setting.
C25_HumidityBands ==
    hum.op = "set_humidity" =>
       /\ hum.arg \in 0..100
       /\ Len(hum.sent) = 1
       /\ hum.sent[1].method = "set_humidity"
       /\ PercentOf(hum.sent[1].arg) =
             IF hum.arg < 50 THEN 45
             ELSE IF hum.arg < 55 THEN 50
             ELSE IF hum.arg < 60 THEN 55
             ELSE IF hum.arg < 100 THEN 60
             ELSE 100
       /\ \A smaller \in 0..hum.arg :
             PercentOf(pywemo_humidity(smaller)) <= PercentOf(hum.sent[1].arg)

\* set_humidity(55) has sent the 55 percent setting.
C25_Witness ==
    /\ hum.op = "set_humidity"
    /\ hum.arg = 55
    /\ hum.sent = << [method |-> "set_humidity", arg |-> "FiftyFivePercent"] >>

\* The user flow f ends in this step with the abort already_configured.
UserFlowAlreadyConfigured(f) ==
    /\ flows[f].pc \in {"form", "resolving"}
    /\ flows[f].source = "user"
    /\ flows'[f].pc = "done"
    /\ flows'[f].reason = "already_configured"

\* C26: when a user flow resolves a device whose unique_id has a record,
\* the abort already_configured leaves that record's host and port equal to
\* the endpoint the device was resolved at: the submitted host and port, or
\* the submitted host and port 0 when the user gave a host only.
C26_RecordFollowsResolution ==
    [][ \A f \in FlowIds :
          UserFlowAlreadyConfigured(f) =>
             \A e \in EntriesWithUid(entries', flows'[f].uid) :
                /\ entries'[e].host = DataOf(flows'[f].input).host
                /\ entries'[e].port = DataOf(flows'[f].input).port ]_vars

C28_CreatedPortIsInteger ==
    [][ \A f \in FlowIds :
          (flows[f].pc # "done" /\ CreatesRecord(f)) =>
             LET supplied == flows'[f].input.port
                 stored == entries'[flows'[f].entry].port
             IN  /\ stored \in 0..65535
                 /\ stored = IF supplied \in {PortAbsent, PortNone} THEN 0
                             ELSE supplied ]_vars

\* C29: whenever a loaded entry is unloaded (by an unload or by a reload),
\* the category async_unload_entry reads from the record is the one the
\* entry's last successful setup forwarded it to, and the entity that
\* platform added is gone.
C29_UnloadsForwardedPlatform ==
    [][ \A e \in EntryIds :
          (/\ e \in DOMAIN entries
           /\ entries[e].state = "loaded"
           /\ UnloadEntry(e) \/ ReloadEntry(e)) =>
              /\ fwd[e].domain # NONE
              /\ entries[e].domain = fwd[e].domain
              /\ \A x \in entities : x.entry = e => x \notin entities' ]_vars

\* A record a discovery or the user created was set up as a binary sensor
\* and unloaded: it holds the category, and no forward and no entity.
C29_Witness ==
    \E e \in DOMAIN entries :
        /\ entries[e].source \in {"ssdp", "user"}
        /\ entries[e].domain = BINARY_SENSOR_DOMAIN
        /\ entries[e].state = "not_loaded"
        /\ calls[e].kind = NONE
        /\ fwd[e] = NoForward
        /\ e \notin reloads
        /\ \A x \in entities : x.entry # e

\* C30: async_migrate_entry changes no record and no device-registry entry;
\* for a record of version 2 or higher it returns True and schedules
\* nothing; for a version-1 record it returns False, whether it schedules
\* the record's removal or retains it; a version-1 record is never reported
\* as migrated and is never set up.
C30_MigrationOnlyReports ==
    /\ [][ \A e \in DOMAIN entries :
             MigrateEntry(e) =>
                /\ entries' = entries
                /\ devreg' = devreg
                /\ IF entries[e].version >= CONFIG_ENTRY_VERSION
                   THEN mig'[e] = "True" /\ removals' = removals
                   ELSE /\ mig'[e] = "False"
                        /\ removals' \in {removals, removals \cup {e}} ]_vars
    /\ [](\A e \in DOMAIN entries :
             entries[e].version < CONFIG_ENTRY_VERSION =>
                /\ e \in DOMAIN mig => mig[e] = "False"
                /\ entries[e].state = "not_loaded")

\* The version-1 record was migrated and reported False, once retained and
\* now scheduled for removal; the version-3 record reported True.
C30_Witness ==
    /\ V1Entry \in DOMAIN entries
    /\ V1Entry \in DOMAIN mig
    /\ mig[V1Entry] = "False"
    /\ V1Entry \in removals
    /\ FutureEntry \in DOMAIN mig
    /\ mig[FutureEntry] = "True"
    /\ entries[FutureEntry].version = CONFIG_ENTRY_VERSION + 1


\* A step of the humidifier in which an update that raised nothing observed
\* a fan mode other than Off.
ObservedOnMode ==
    /\ hum'.op = "update"
    /\ ~hum'.raised
    /\ hum'.arg # "Off"

\* C31: the remembered last-on mode of the humidifier starts as Medium and is
\* never Off; a step changes it only when it is an update that raised
\* nothing and observed a mode other than Off, and then to that mode; and
\* turn_on without a speed sends exactly the mode remembered before the
\* call, which is never Off.
C31_LastOnModeNeverOff ==
    /\ hum.last_fan_on_mode = "Medium"
    /\ [](hum.last_fan_on_mode # "Off")
    /\ [][ /\ ObservedOnMode => hum'.last_fan_on_mode = hum'.arg
           /\ ~ObservedOnMode =>
                 hum'.last_fan_on_mode = hum.last_fan_on_mode
           /\ (hum'.op = "turn_on" /\ hum'.arg = NONE) =>
                 /\ hum'.sent = << [method |-> "set_state",
                                    arg |-> hum.last_fan_on_mode] >>
                 /\ hum'.sent[1].arg # "Off" ]_vars

\* turn_on without a speed has sent High, observed by an earlier update,
\* after a later update observed Off.
C31_Witness ==
    /\ hum.op = "turn_on"
    /\ hum.arg = NONE
    /\ hum.fan_mode = "Off"
    /\ hum.last_fan_on_mode = "High"
    /\ hum.sent = << [method |-> "set_state", arg |-> "High"] >>

\* The last operation of the entity e was an update and its device call
\* raised: e is unavailable and a reconnect was requested after the call.
FailedUpdateMarked(e) ==
    (e.op = "update" /\ e.raised) =>
        /\ ~e.available
        /\ e.sent = << [method |-> "get_state", arg |-> TRUE],
                       [method |-> "reconnect_with_device", arg |-> NONE] >>

\* The last operation of the entity e was an update that raised nothing: e
\* is available and no reconnect was requested.
GoodUpdateAvailable(e) ==
    (e.op = "update" /\ ~e.raised) =>
        /\ e.available
        /\ e.sent = << [method |-> "get_state", arg |-> TRUE] >>

\* C32: for the binary sensor and the humidifier, an update whose device
\* call raised leaves the entity unavailable with a reconnect requested, a
\* command whose device call raised leaves it unavailable, an update that
\* raised nothing leaves it available, and a step makes an unavailable
\* entity available only when it is an update that raised nothing.
C32_AvailabilityFollowsDevice ==
    /\ [](/\ FailedUpdateMarked(hum) /\ FailedUpdateMarked(sensor)
          /\ GoodUpdateAvailable(hum) /\ GoodUpdateAvailable(sensor)
          /\ (hum.op \notin {NONE, "update"} /\ hum.raised) =>
                ~hum.available)
    /\ [][ /\ (~hum.available /\ hum'.available) =>
                 (hum'.op = "update" /\ ~hum'.raised /\ sensor' = sensor)
           /\ (~sensor.available /\ sensor'.available) =>
                 (sensor'.op = "update" /\ ~sensor'.raised /\ hum' = hum)
         ]_vars

\* The humidifier is unavailable after a turn_off that failed, the binary
\* sensor after an update that raised and requested the reconnect.
C32_Witness ==
    /\ hum.op = "turn_off"
    /\ hum.raised
    /\ ~hum.available
    /\ sensor.op = "update"
    /\ sensor.raised
    /\ ~sensor.available
    /\ Len(sensor.sent) = 2
    /\ sensor.sent[2].method = "reconnect_with_device"

\* C33: the registry is started at most once, and exactly once by the time
\* async_setup has finished or an import flow exists; it is stopped at
\* most once and never before the host's stop event; and once the stop
\* event has fired, a registry that was started has been stopped exactly
\* once.
C33_RegistryStartedOnceStoppedOnce ==
    /\ registry.starts <= 1
    /\ (conf.pc = "set_up" \/ flows # NoFlows) => registry.starts = 1
    /\ registry.stops <= 1
    /\ registry.stops = 1 => registry.stop_fired
    /\ (registry.stop_fired /\ registry.starts = 1) => registry.stops = 1
====
